---- MODULE Spec2Model ----
(***************************************************************************)
(* Verification model of the SQL access guard of the banking assistant:   *)
(* the query classifier and the row-level validators of security_utils.py *)
(* and agent/mcp_toolbox_server.py, the database tools of the MCP server, *)
(* and the rate limiter.  SQL text is modelled character by character, as *)
(* a sequence of one-character strings, so that the regular expressions   *)
(* of the source are computed the way Python's re module computes them.   *)
(***************************************************************************)
EXTENDS Integers, Sequences, FiniteSets, TLC

VARIABLES
    sql,     \* the SQL text handed to the validators, built token by token
    ntok,    \* number of tokens the text was built from
    ret,     \* the last validator call: its name, arguments and result
    request,    \* the tool call the server is handling, with its arguments
    response,   \* what the tool returned to the caller
    trace,      \* the steps the handler of the request took, in order
    audit,      \* the security lines the server printed for the request, oldest first
    decisions,  \* number of verdicts validate_sql_access returned to the request's tool
    nreq        \* number of tool calls received

sqlvars == <<sql, ntok, ret>>
srvvars == <<request, response, trace, audit, decisions, nreq>>

\* the rate limiter: the clock, each identity's RateWindow, the verdict of the
\* latest check, the times of the calls allowed to each identity since its
\* latest reset, and the number of checks made
VARIABLES now, windows, rate_verdict, allowed_at, nchecks

ratevars == <<now, windows, rate_verdict, allowed_at, nchecks>>

\* the lock of each identity's RateWindow and the threads that serve requests
VARIABLES lock, threads

lockvars == <<lock, threads>>

\* the CustomerAuthenticator of the agent process (authenticated_user, user_type),
\* the globals the agent sets at startup (CURRENT_USER, USER_TYPE) and the
\* number of calls made to the authenticator
VARIABLES authenticator, agent, nauth
\* the interactive login: the prompt loop that runs, its loop variable, the
\* number of credentials tried, what was typed last, and what it returned
VARIABLES login
\* the schema cache file and the clock, which counts half days
VARIABLES cache_file, clock

cachevars == <<cache_file, clock>>
authvars == <<authenticator, agent, nauth, login, cachevars>>
vars == <<sqlvars, srvvars, ratevars, lockvars, authvars>>

(***************************************************************************)
(* Characters and Python string primitives                                 *)
(***************************************************************************)
LowerCh == <<"a","b","c","d","e","f","g","h","i","j","k","l","m","n","o","p","q","r","s","t","u","v","w","x","y","z">>
UpperCh == <<"A","B","C","D","E","F","G","H","I","J","K","L","M","N","O","P","Q","R","S","T","U","V","W","X","Y","Z">>
DigitCh == {"0","1","2","3","4","5","6","7","8","9"}

LowerSet == {LowerCh[i] : i \in 1..26}
UpperSet == {UpperCh[i] : i \in 1..26}
UpperOf == [c \in LowerSet |-> UpperCh[CHOOSE i \in 1..26 : LowerCh[i] = c]]
LowerOf == [c \in UpperSet |-> LowerCh[CHOOSE i \in 1..26 : UpperCh[i] = c]]

\* str.lower() on one character
ToLowerCh(c) == IF c \in UpperSet THEN LowerOf[c] ELSE c

\* str.upper()
Upper(s) == [i \in 1..Len(s) |-> IF s[i] \in LowerSet THEN UpperOf[s[i]] ELSE s[i]]
\* str.lower()
Lower(s) == [i \in 1..Len(s) |-> ToLowerCh(s[i])]

\* the regex class \s and the characters str.strip() removes
IsSpace(c) == c \in {" ", "\n", "\t"}
\* the regex class \w
WordSet == LowerSet \cup UpperSet \cup DigitCh \cup {"_"}
IsWordCh(c) == c \in WordSet

\* s[i:j] with 1-based inclusive bounds; empty when i > j
Slice(s, i, j) == [k \in 1..(IF j >= i THEN j - i + 1 ELSE 0) |-> s[i + k - 1]]

\* w occurs in s starting at position i
OccursAt(s, i, w) ==
    /\ i >= 1
    /\ i + Len(w) - 1 <= Len(s)
    /\ \A k \in 1..Len(w) : s[i + k - 1] = w[k]

\* Python's  w in s
Contains(s, w) == \E i \in 1..(Len(s) + 1) : OccursAt(s, i, w)

\* str.startswith
StartsWith(s, w) == OccursAt(s, 1, w)

\* str.strip()
Strip(s) ==
    LET keep == {i \in 1..Len(s) : ~IsSpace(s[i])}
    IN  IF keep = {} THEN <<>>
        ELSE LET lo == CHOOSE i \in keep : \A j \in keep : i <= j
                 hi == CHOOSE i \in keep : \A j \in keep : i >= j
             IN  Slice(s, lo, hi)

\* no assertion at all: a keyword is found wherever its letters stand
WordBoundary_absent(s, p) == TRUE

\* the regex assertion \b between s[p-1] and s[p]
WordBoundary(s, p) ==
    LET before == p > 1 /\ p - 1 <= Len(s) /\ IsWordCh(s[p - 1])
        after  == p >= 1 /\ p <= Len(s) /\ IsWordCh(s[p])
    IN  before # after

\* number of \s characters of s from position i on (the greedy \s*)
RECURSIVE SpaceRun(_, _)
SpaceRun(s, i) == IF i <= Len(s) /\ IsSpace(s[i]) THEN 1 + SpaceRun(s, i + 1) ELSE 0

\* the least element of a non-empty set of positions
Least(S) == CHOOSE i \in S : \A j \in S : i <= j

\* first position >= i where w starts in s, 0 when there is none
FindFrom(s, i, w) ==
    LET at == {j \in i..Len(s) : OccursAt(s, j, w)}
    IN  IF at = {} THEN 0 ELSE Least(at)

\* re.sub(r'--.*$', '', s, flags=re.MULTILINE) applied to s from position i:
\* every "--" is removed with the rest of its line
RECURSIVE StripLineComments(_, _)
StripLineComments(s, i) ==
    LET start == FindFrom(s, i, <<"-", "-">>)
        eol == FindFrom(s, start + 2, <<"\n">>)
    IN  IF start = 0 THEN Slice(s, i, Len(s))
        ELSE IF eol = 0 THEN Slice(s, i, start - 1)
        ELSE Slice(s, i, start - 1) \o StripLineComments(s, eol)

\* re.sub(r'/\*.*?\*/', '', s, flags=re.DOTALL) applied to s from position i:
\* every "/*" is removed up to the first "*/" behind it (the lazy .*?)
RECURSIVE StripBlockComments(_, _)
StripBlockComments(s, i) ==
    LET start == FindFrom(s, i, <<"/", "*">>)
        close == FindFrom(s, start + 2, <<"*", "/">>)
    IN  IF start = 0 \/ close = 0 THEN Slice(s, i, Len(s))
        ELSE Slice(s, i, start - 1) \o StripBlockComments(s, close + 2)

(***************************************************************************)
(* security_utils.validate_query_type                                      *)
(***************************************************************************)
W_DELETE == <<"D","E","L","E","T","E">>
W_DROP == <<"D","R","O","P">>
W_TABLE == <<"T","A","B","L","E">>
W_DATABASE == <<"D","A","T","A","B","A","S","E">>
W_UPDATE == <<"U","P","D","A","T","E">>
W_INSERT == <<"I","N","S","E","R","T">>
W_ALTER == <<"A","L","T","E","R">>
W_CREATE == <<"C","R","E","A","T","E">>
W_INDEX == <<"I","N","D","E","X">>
W_VIEW == <<"V","I","E","W">>
W_COLUMN == <<"C","O","L","U","M","N">>
W_GRANT == <<"G","R","A","N","T">>
W_USER == <<"U","S","E","R">>
W_ROLE == <<"R","O","L","E">>
\* re.escape makes this entry literal text, not a regular expression
W_SELECT == <<"S","E","L","E","C","T">>
W_WITH == <<"W","I","T","H">>

\* the dictionary prohibited_patterns in iteration order; a keyword is the
\* sequence of its space-separated parts
prohibited_patterns == <<
    [category |-> "DELETE", keyword |-> "DELETE", parts |-> <<W_DELETE>>],
    [category |-> "DELETE", keyword |-> "TRUNCATE", parts |-> <<<<"T","R","U","N","C","A","T","E">>>>],
    [category |-> "DELETE", keyword |-> "DROP TABLE", parts |-> <<W_DROP, W_TABLE>>],
    [category |-> "DELETE", keyword |-> "DROP DATABASE", parts |-> <<W_DROP, W_DATABASE>>],
    [category |-> "UPDATE", keyword |-> "UPDATE", parts |-> <<W_UPDATE>>],
    [category |-> "INSERT", keyword |-> "INSERT", parts |-> <<W_INSERT>>],
    [category |-> "SCHEMA", keyword |-> "ALTER TABLE", parts |-> <<W_ALTER, W_TABLE>>],
    [category |-> "SCHEMA", keyword |-> "ALTER DATABASE", parts |-> <<W_ALTER, W_DATABASE>>],
    [category |-> "SCHEMA", keyword |-> "CREATE TABLE", parts |-> <<W_CREATE, W_TABLE>>],
    [category |-> "SCHEMA", keyword |-> "CREATE DATABASE", parts |-> <<W_CREATE, W_DATABASE>>],
    [category |-> "SCHEMA", keyword |-> "CREATE INDEX", parts |-> <<W_CREATE, W_INDEX>>],
    [category |-> "SCHEMA", keyword |-> "DROP INDEX", parts |-> <<W_DROP, W_INDEX>>],
    [category |-> "SCHEMA", keyword |-> "CREATE VIEW", parts |-> <<W_CREATE, W_VIEW>>],
    [category |-> "SCHEMA", keyword |-> "DROP VIEW", parts |-> <<W_DROP, W_VIEW>>],
    [category |-> "SCHEMA", keyword |-> "ALTER COLUMN", parts |-> <<W_ALTER, W_COLUMN>>],
    [category |-> "SCHEMA", keyword |-> "ADD COLUMN", parts |-> <<<<"A","D","D">>, W_COLUMN>>],
    [category |-> "SCHEMA", keyword |-> "DROP COLUMN", parts |-> <<W_DROP, W_COLUMN>>],
    [category |-> "ADMIN", keyword |-> "GRANT", parts |-> <<W_GRANT>>],
    [category |-> "ADMIN", keyword |-> "REVOKE", parts |-> <<<<"R","E","V","O","K","E">>>>],
    [category |-> "ADMIN", keyword |-> "CREATE USER", parts |-> <<W_CREATE, W_USER>>],
    [category |-> "ADMIN", keyword |-> "DROP USER", parts |-> <<W_DROP, W_USER>>],
    [category |-> "ADMIN", keyword |-> "ALTER USER", parts |-> <<W_ALTER, W_USER>>],
    [category |-> "ADMIN", keyword |-> "CREATE ROLE", parts |-> <<W_CREATE, W_ROLE>>],
    [category |-> "ADMIN", keyword |-> "DROP ROLE", parts |-> <<W_DROP, W_ROLE>>],
    [category |-> "INJECTION", keyword |-> ";.*(?:DELETE|UPDATE|INSERT|DROP)", parts |-> <<<<";",".","*","(","?",":","D","E","L","E","T","E","|","U","P","D","A","T","E","|","I","N","S","E","R","T","|","D","R","O","P",")">>>>],
    [category |-> "INJECTION", keyword |-> "EXEC", parts |-> <<<<"E","X","E","C">>>>],
    [category |-> "INJECTION", keyword |-> "EXECUTE", parts |-> <<<<"E","X","E","C","U","T","E">>>>],
    [category |-> "INJECTION", keyword |-> "xp_", parts |-> <<<<"x","p","_">>>>],
    [category |-> "INJECTION", keyword |-> "sp_executesql", parts |-> <<<<"s","p","_","e","x","e","c","u","t","e","s","q","l">>>>] >>

\* the parts of a keyword from part k on match s at position i, separated by
\* \s+, and a \b follows the last part
RECURSIVE MatchParts(_, _, _, _)
MatchParts(s, i, parts, k) ==
    /\ OccursAt(s, i, parts[k])
    /\ LET e == i + Len(parts[k])
       IN  IF k = Len(parts) THEN WordBoundary(s, e)
           ELSE /\ SpaceRun(s, e) >= 1
                /\ MatchParts(s, e + SpaceRun(s, e), parts, k + 1)

\* re.search(r'\b' + re.escape(keyword).replace(r'\ ', r'\s+') + r'\b', s)
SearchKeyword(s, parts) ==
    \E i \in 1..Len(s) : MatchParts(s, i, parts, 1) /\ WordBoundary(s, i)

\* sql_upper after upper(), strip() and the two re.sub calls, in that order
StripComments(q) == StripBlockComments(StripLineComments(Strip(Upper(q)), 1), 1)

validate_query_type(q) ==
    LET sql_upper == StripComments(q)
        hits == {k \in 1..Len(prohibited_patterns) :
                     SearchKeyword(sql_upper, prohibited_patterns[k].parts)}
    IN  IF hits # {}
        THEN LET first == CHOOSE k \in hits : \A j \in hits : k <= j
             IN  [valid |-> FALSE, msg |-> "SECURITY BLOCK: operations are not permitted",
                  category |-> prohibited_patterns[first].category,
                  keyword |-> prohibited_patterns[first].keyword]
        ELSE IF ~(StartsWith(sql_upper, W_SELECT) \/ StartsWith(sql_upper, W_WITH))
             THEN [valid |-> FALSE, msg |-> "SECURITY BLOCK: Only SELECT queries are permitted",
                   category |-> "", keyword |-> ""]
             ELSE [valid |-> TRUE, msg |-> "", category |-> "", keyword |-> ""]

(***************************************************************************)
(* The identity extractor and the two row-level validators                 *)
(***************************************************************************)
W_customer_name == <<"c","u","s","t","o","m","e","r","_","n","a","m","e">>
W_WHERE == <<"W","H","E","R","E">>
W_CUSTOMERS == <<"C","U","S","T","O","M","E","R","S">>
W_TRANSACTIONS == <<"T","R","A","N","S","A","C","T","I","O","N","S">>
W_FROM_ == <<"F","R","O","M"," ">>
W_JOIN_ == <<"J","O","I","N"," ">>

\* config.BIGQUERY_DATASET, read from the environment; the value of the model
BIGQUERY_DATASET == <<"u","p","i">>

\* first position >= i holding a single quote, 0 when there is none
QuoteAt(s, i) == FindFrom(s, i, <<"'">>)

\* the regex customer_name\s*=\s*'([^']+)' with re.IGNORECASE, anchored at
\* position i: 0 when it does not match there, else the position of the
\* closing quote
MatchCustomerAt(s, i) ==
    LET n == Len(W_customer_name)
        eq == i + n + SpaceRun(s, i + n)
        open == eq + 1 + SpaceRun(s, eq + 1)
        close == QuoteAt(s, open + 1)
    IN  IF /\ i + n - 1 <= Len(s)
           /\ \A k \in 1..n : ToLowerCh(s[i + k - 1]) = W_customer_name[k]
           /\ eq <= Len(s) /\ s[eq] = "="
           /\ open <= Len(s) /\ s[open] = "'"
           /\ close > open + 1
        THEN close
        ELSE 0

\* the value captured by the match anchored at i
CapturedAt(s, i) ==
    LET close == MatchCustomerAt(s, i)
        open == QuoteAt(s, i)
    IN  Slice(s, open + 1, close - 1)

\* re.findall: the leftmost matches, left to right, without overlap
RECURSIVE FindAllFrom(_, _)
FindAllFrom(s, i) ==
    LET at == {j \in i..Len(s) : MatchCustomerAt(s, j) # 0}
    IN  IF at = {} THEN <<>>
        ELSE <<CapturedAt(s, Least(at))>> \o FindAllFrom(s, MatchCustomerAt(s, Least(at)) + 1)

extract_customer_names_from_sql(q) == FindAllFrom(q, 1)

\* the first customer of the list that is not the current user, <<>> if none
FirstOther(referenced_customers, current_user) ==
    LET bad == {k \in 1..Len(referenced_customers) : referenced_customers[k] # current_user}
    IN  IF bad = {} THEN <<>>
        ELSE referenced_customers[CHOOSE k \in bad : \A j \in bad : k <= j]

\* restricted_tables of validate_row_level_security
restricted_tables == <<W_CUSTOMERS, W_TRANSACTIONS, <<"A","C","C","O","U","N","T","S">>>>

validate_row_level_security(q, current_user) ==
    LET referenced_customers == extract_customer_names_from_sql(q)
        sql_upper == Upper(q)
        hit == {k \in 1..Len(restricted_tables) :
                    \/ Contains(sql_upper, W_FROM_ \o restricted_tables[k])
                    \/ Contains(sql_upper, W_JOIN_ \o restricted_tables[k])}
    IN  IF current_user = <<>>
        THEN [valid |-> FALSE, msg |-> "Authentication required to access database."]
        ELSE IF FirstOther(referenced_customers, current_user) # <<>>
        THEN [valid |-> FALSE, msg |-> "SECURITY VIOLATION DETECTED"]
        ELSE IF hit # {} /\ ~Contains(sql_upper, W_WHERE)
        THEN [valid |-> FALSE, msg |-> "SECURITY VIOLATION: Query attempts to access all records without filtering."]
        ELSE [valid |-> TRUE, msg |-> ""]

\* agent/mcp_toolbox_server.py: the validator the database tools call
validate_sql_access(q, current_user) ==
    LET referenced_customers == extract_customer_names_from_sql(q)
        sql_upper == Upper(q)
        dataset == Upper(BIGQUERY_DATASET) \o <<".">>
    IN  IF current_user = <<>>
        THEN [valid |-> FALSE, msg |-> "Authentication required to access database."]
        ELSE IF FirstOther(referenced_customers, current_user) # <<>>
        THEN [valid |-> FALSE, msg |-> "SECURITY VIOLATION DETECTED"]
        ELSE IF /\ \/ Contains(sql_upper, W_FROM_ \o W_CUSTOMERS)
                   \/ Contains(sql_upper, W_FROM_ \o W_TRANSACTIONS)
                   \/ Contains(sql_upper, W_FROM_ \o dataset \o W_CUSTOMERS)
                   \/ Contains(sql_upper, W_FROM_ \o dataset \o W_TRANSACTIONS)
                /\ ~Contains(sql_upper, W_WHERE)
        THEN [valid |-> FALSE, msg |-> "SECURITY VIOLATION: Query attempts to access all records without filtering."]
        ELSE [valid |-> TRUE, msg |-> ""]

(***************************************************************************)
(* Inputs of the validators: SQL text as the SQL generator may emit it,    *)
(* assembled from tokens, and the identities of the callers                *)
(***************************************************************************)
MaxTokens == 4

Alice == <<"A","l","i","c","e">>
Bob == <<"B","o","b">>
\* current_user None or ''
NoUser == <<>>
\* the callers of the validators: Alice, an identity that itself reads like the
\* start of a predicate, and no current_user
Identities == {Alice, <<"c","u","s","t","o","m","e","r","_","n","a","m","e"," ","="," ">>, NoUser}

\* pieces of SQL text for the classifier: keywords in mixed letter case, a two-word
\* keyword with whitespace between its words, comment marks and an identifier
ClassifierTokens ==
    {<<"S","E","L","E","C","T"," ">>,
     <<"W","I","T","H"," ">>,
     <<"D","e","l","e","t","e">>,
     <<"d","r","o","p","\n","\t","t","a","b","l","e">>,
     <<"\n">>,
     <<"-","-">>,
     <<"/","*">>,
     <<"*","/">>,
     <<"/","*","*","/">>,
     <<"d","_","a","t">>}

\* pieces of SQL text for the row-level validators: table references, WHERE,
\* the customer_name predicate in two spellings and quoted names
RowTokens ==
    {<<"S","E","L","E","C","T"," ","*"," ","F","R","O","M"," ","c","u","s","t","o","m","e","r","s">>,
     <<" ","J","O","I","N"," ","t","r","a","n","s","a","c","t","i","o","n","s">>,
     <<" ","W","H","E","R","E"," ">>,
     <<"c","u","s","t","o","m","e","r","_","n","a","m","e"," ","="," ">>,
     <<"C","u","s","t","o","m","e","r","_","N","a","m","e","\n","=">>,
     <<"'","A","l","i","c","e","'">>,
     <<"'","B","o","b","'">>,
     <<"'">>}

NoRet == [fn |-> "none"]

NoRequest == [tool |-> "none", natural_language_query |-> <<>>, current_user |-> NoUser,
              metric_type |-> "", page |-> 1, page_size |-> 100, order_by |-> <<>>,
              result_limit |-> 100]
NoResponse == [kind |-> "none", text |-> "", exc |-> <<>>, rows |-> <<>>]

(***************************************************************************)
(* The rate limiter, as the specification describes it (section 4.5): the  *)
(* repository announces its limits in agent/agent.py and holds no code of  *)
(* the limiter.                                                            *)
(***************************************************************************)
max_per_minute == 10
max_per_session == 100
window_seconds == 60

\* a RateWindow: the session counter and the timestamps of the sliding window
NoWindow == [session_count |-> 0, timestamps |-> <<>>]

RATE_LIMITED == "RATE_LIMITED"
NONE == "NONE"
Verdict(identity, allowed, category, reason) ==
    [identity |-> identity, allowed |-> allowed, category |-> category, reason |-> reason]

\* the timestamps that are not older than the window at time t
Pruned(timestamps, t) ==
    LET kept == {i \in 1..Len(timestamps) : t - timestamps[i] <= window_seconds}
        skipped(i) == Cardinality({j \in 1..i : j \notin kept})
    IN  [k \in 1..Cardinality(kept) |->
            timestamps[CHOOSE i \in kept : i - skipped(i) = k]]

\* check_and_record off by one: it throttles only past the per-minute cap
check_and_record_past_cap(w, identity, t) ==
    IF w.session_count >= max_per_session
    THEN [window |-> w, verdict |-> Verdict(identity, FALSE, RATE_LIMITED, "session limit")]
    ELSE IF Len(Pruned(w.timestamps, t)) > max_per_minute
    THEN [window |-> [w EXCEPT !.timestamps = Pruned(w.timestamps, t)],
          verdict |-> Verdict(identity, FALSE, RATE_LIMITED, "per-minute limit")]
    ELSE [window |-> [session_count |-> w.session_count + 1,
                      timestamps |-> Append(Pruned(w.timestamps, t), t)],
          verdict |-> Verdict(identity, TRUE, NONE, "")]

\* check_and_record without the session cap
check_and_record_no_session_cap(w, identity, t) ==
    IF Len(Pruned(w.timestamps, t)) >= max_per_minute
    THEN [window |-> [w EXCEPT !.timestamps = Pruned(w.timestamps, t)],
          verdict |-> Verdict(identity, FALSE, RATE_LIMITED, "per-minute limit")]
    ELSE [window |-> [session_count |-> w.session_count + 1,
                      timestamps |-> Append(Pruned(w.timestamps, t), t)],
          verdict |-> Verdict(identity, TRUE, NONE, "")]

\* check_and_record that never prunes the window
check_and_record_never_pruned(w, identity, t) ==
    IF w.session_count >= max_per_session
    THEN [window |-> w, verdict |-> Verdict(identity, FALSE, RATE_LIMITED, "session limit")]
    ELSE IF Len(w.timestamps) >= max_per_minute
    THEN [window |-> w,
          verdict |-> Verdict(identity, FALSE, RATE_LIMITED, "per-minute limit")]
    ELSE [window |-> [session_count |-> w.session_count + 1,
                      timestamps |-> Append(w.timestamps, t)],
          verdict |-> Verdict(identity, TRUE, NONE, "")]

\* check_and_record that tests the per-minute cap before the session cap
check_and_record_minute_first(w, identity, t) ==
    IF Len(Pruned(w.timestamps, t)) >= max_per_minute
    THEN [window |-> [w EXCEPT !.timestamps = Pruned(w.timestamps, t)],
          verdict |-> Verdict(identity, FALSE, RATE_LIMITED, "per-minute limit")]
    ELSE IF w.session_count >= max_per_session
    THEN [window |-> w, verdict |-> Verdict(identity, FALSE, RATE_LIMITED, "session limit")]
    ELSE [window |-> [session_count |-> w.session_count + 1,
                      timestamps |-> Append(Pruned(w.timestamps, t), t)],
          verdict |-> Verdict(identity, TRUE, NONE, "")]

\* check_and_record on the RateWindow w of an identity at time t: the session
\* cap first, then the pruning and the per-minute cap, then the recording
check_and_record(w, identity, t) ==
    IF w.session_count >= max_per_session
    THEN [window |-> w, verdict |-> Verdict(identity, FALSE, RATE_LIMITED, "session limit")]
    ELSE IF Len(Pruned(w.timestamps, t)) >= max_per_minute
    THEN [window |-> [w EXCEPT !.timestamps = Pruned(w.timestamps, t)],
          verdict |-> Verdict(identity, FALSE, RATE_LIMITED, "per-minute limit")]
    ELSE [window |-> [session_count |-> w.session_count + 1,
                      timestamps |-> Append(Pruned(w.timestamps, t), t)],
          verdict |-> Verdict(identity, TRUE, NONE, "")]

\* the identities that call the rate limiter
RateIdentities == {Alice, Bob}

\* the threads that serve requests, one request each at a time
Threads == {1, 2}
NoHolder == 0
NoCall == [pc |-> "idle", identity |-> NoUser, window |-> NoWindow]

(***************************************************************************)
(* customer_auth.py: the CustomerAuthenticator. The tables it reads hold   *)
(* two customers and one merchant; a hash is modelled by the text hashed,  *)
(* tagged with the algorithm, so that equal hashes mean equal secrets.     *)
(***************************************************************************)
None == [none |-> "None"]

\* CustomerAuthenticator.__init__
CustomerAuthenticator == [authenticated_user |-> None, user_type |-> "None"]

hash_pin(pin) == <<"sha256", pin>>

upi_customer ==
    {[customer_id |-> "C1", name |-> Alice, mobile_number |-> "9000000001", primary_vpa |-> <<"a","l","i","c","e","@","u","p","i">>, pin_hash |-> hash_pin("1234")],
     [customer_id |-> "C2", name |-> Bob, mobile_number |-> "9000000002", primary_vpa |-> <<"b","o","b","@","u","p","i">>, pin_hash |-> hash_pin("4321")]}

upi_merchant ==
    {[merchant_id |-> "M1", merchant_name |-> "Shop", merchant_vpa |-> <<"s","h","o","p","@","u","p","i">>,
      password_hash |-> hash_pin("grocery123")]}

\* authenticate_by_vpa_pin: the authenticator after the call and the value
\* returned; raises tells whether the query of the table raised
authenticate_by_vpa_pin(self, vpa, pin, raises) ==
    LET results == {c \in upi_customer : c.primary_vpa = vpa}
        customer == CHOOSE c \in results : TRUE
        user == [customer_id |-> customer.customer_id, name |-> customer.name,
                 mobile_number |-> customer.mobile_number, primary_vpa |-> customer.primary_vpa]
    IN  IF raises \/ results = {}
        THEN [self |-> self, out |-> None]
        ELSE IF customer.pin_hash = hash_pin(pin)
        THEN [self |-> [authenticated_user |-> user, user_type |-> "customer"], out |-> user]
        ELSE [self |-> self, out |-> None]

\* authenticate_by_mobile_pin with the failure branch of the PIN test clearing
\* authenticated_user only
authenticate_by_mobile_pin_clearing(self, mobile_number, pin, raises) ==
    LET results == {c \in upi_customer : c.mobile_number = mobile_number}
        customer == CHOOSE c \in results : TRUE
        user == [customer_id |-> customer.customer_id, name |-> customer.name,
                 mobile_number |-> customer.mobile_number, primary_vpa |-> customer.primary_vpa]
    IN  IF raises \/ results = {}
        THEN [self |-> self, out |-> None]
        ELSE IF customer.pin_hash = hash_pin(pin)
        THEN [self |-> [authenticated_user |-> user, user_type |-> "customer"], out |-> user]
        ELSE [self |-> [self EXCEPT !.authenticated_user = None], out |-> None]

authenticate_by_mobile_pin(self, mobile_number, pin, raises) ==
    LET results == {c \in upi_customer : c.mobile_number = mobile_number}
        customer == CHOOSE c \in results : TRUE
        user == [customer_id |-> customer.customer_id, name |-> customer.name,
                 mobile_number |-> customer.mobile_number, primary_vpa |-> customer.primary_vpa]
    IN  IF raises \/ results = {}
        THEN [self |-> self, out |-> None]
        ELSE IF customer.pin_hash = hash_pin(pin)
        THEN [self |-> [authenticated_user |-> user, user_type |-> "customer"], out |-> user]
        ELSE [self |-> self, out |-> None]

authenticate_merchant_by_vpa_password(self, vpa, password, raises) ==
    LET results == {m \in upi_merchant : m.merchant_vpa = vpa}
        merchant == CHOOSE m \in results : TRUE
        user == [merchant_id |-> merchant.merchant_id, merchant_name |-> merchant.merchant_name,
                 merchant_vpa |-> merchant.merchant_vpa]
    IN  IF raises \/ results = {}
        THEN [self |-> self, out |-> None]
        ELSE IF merchant.password_hash = hash_pin(password)
        THEN [self |-> [authenticated_user |-> user, user_type |-> "merchant"], out |-> user]
        ELSE [self |-> self, out |-> None]

\* what a prompt loop returns: (user, user_type), (None, None) on failure;
\* Running while the loop has not returned
NoneNone == [user |-> None, user_type |-> "None"]
Running == [user |-> None, user_type |-> "running"]
NoTyped == [auth_method |-> "", vpa |-> <<>>, mobile |-> "", secret |-> ""]
NoLogin == [loop |-> "none", attempt |-> 0, tried |-> 0, typed |-> NoTyped, out |-> Running]

\* the cache file before the first save_cache: it does not exist
NoFile == [exists |-> FALSE, json |-> FALSE, timestamp |-> 0, schema_info |-> "", table_contexts |-> ""]

\* the globals of agent.py before the startup and after exit(1)
NotStarted == [CURRENT_USER |-> NoUser, USER_TYPE |-> "not started"]
Exited == [CURRENT_USER |-> NoUser, USER_TYPE |-> "exited"]

Init ==
    /\ now = 0
    /\ windows = [id \in RateIdentities |-> NoWindow]
    /\ rate_verdict = [identity |-> NoUser, allowed |-> TRUE, category |-> "none", reason |-> ""]
    /\ allowed_at = [id \in RateIdentities |-> <<>>]
    /\ nchecks = 0
    /\ lock = [id \in RateIdentities |-> NoHolder]
    /\ threads = [th \in Threads |-> NoCall]
    /\ authenticator = CustomerAuthenticator
    /\ agent = NotStarted
    /\ nauth = 0
    /\ login = NoLogin
    /\ cache_file = NoFile
    /\ clock = 0
    /\ sql = <<>>
    /\ ntok = 0
    /\ ret = NoRet
    /\ request = NoRequest
    /\ response = NoResponse
    /\ trace = <<>>
    /\ audit = <<>>
    /\ decisions = 0
    /\ nreq = 0

\* the SQL generator emits one more token of a statement for the classifier
AppendClassifierToken ==
    /\ ret = NoRet
    /\ ntok < MaxTokens
    /\ \E t \in ClassifierTokens : sql' = sql \o t
    /\ ntok' = ntok + 1
    /\ UNCHANGED <<ret, srvvars, ratevars, lockvars, authvars>>

\* the SQL generator emits one more token of a statement for the validators
AppendRowToken ==
    /\ ret = NoRet
    /\ ntok < MaxTokens
    /\ \E t \in RowTokens : sql' = sql \o t
    /\ ntok' = ntok + 1
    /\ UNCHANGED <<ret, srvvars, ratevars, lockvars, authvars>>

Call_validate_query_type ==
    /\ ret = NoRet
    /\ ret' = [fn |-> "validate_query_type", out |-> validate_query_type(sql)]
    /\ UNCHANGED <<sql, ntok, srvvars, ratevars, lockvars, authvars>>

Call_validate_row_level_security ==
    /\ ret = NoRet
    /\ \E u \in Identities :
          ret' = [fn |-> "validate_row_level_security", current_user |-> u,
                  out |-> validate_row_level_security(sql, u)]
    /\ UNCHANGED <<sql, ntok, srvvars, ratevars, lockvars, authvars>>

Call_validate_sql_access ==
    /\ ret = NoRet
    /\ \E u \in Identities :
          ret' = [fn |-> "validate_sql_access", current_user |-> u,
                  out |-> validate_sql_access(sql, u)]
    /\ UNCHANGED <<sql, ntok, srvvars, ratevars, lockvars, authvars>>

NextClassifier ==
    \/ AppendClassifierToken
    \/ Call_validate_query_type

SpecClassifier == Init /\ [][NextClassifier]_vars

NextRowLevel ==
    \/ AppendRowToken
    \/ Call_validate_row_level_security
    \/ Call_validate_sql_access

SpecRowLevel == Init /\ [][NextRowLevel]_vars

(***************************************************************************)
(* Reading SQL text the way the claims describe it                          *)
(***************************************************************************)
\* for every position of q, whether it lies in a comment of the SQL text: a
\* line comment runs from "--" to the end of the line, a block comment from
\* "/*" to the next "*/"
RECURSIVE CommentMask(_, _, _)
CommentMask(q, i, mode) ==
    IF i > Len(q) THEN <<>>
    ELSE IF mode = "line"
         THEN IF q[i] = "\n" THEN <<FALSE>> \o CommentMask(q, i + 1, "code")
              ELSE <<TRUE>> \o CommentMask(q, i + 1, "line")
    ELSE IF mode = "block"
         THEN IF OccursAt(q, i, <<"*", "/">>)
              THEN <<TRUE, TRUE>> \o CommentMask(q, i + 2, "code")
              ELSE <<TRUE>> \o CommentMask(q, i + 1, "block")
    ELSE IF OccursAt(q, i, <<"-", "-">>) THEN <<TRUE, TRUE>> \o CommentMask(q, i + 2, "line")
    ELSE IF OccursAt(q, i, <<"/", "*">>) THEN <<TRUE, TRUE>> \o CommentMask(q, i + 2, "block")
    ELSE <<FALSE>> \o CommentMask(q, i + 1, "code")

\* q with every comment character replaced by a blank
CommentsBlanked(q) ==
    LET mask == CommentMask(q, 1, "code")
    IN  [i \in 1..Len(q) |-> IF mask[i] THEN " " ELSE q[i]]

\* q with every comment character removed
RECURSIVE Unmasked(_, _, _)
Unmasked(q, mask, i) ==
    IF i > Len(q) THEN <<>>
    ELSE IF mask[i] THEN Unmasked(q, mask, i + 1)
         ELSE <<q[i]>> \o Unmasked(q, mask, i + 1)

CommentsRemoved(q) == Unmasked(q, CommentMask(q, 1, "code"), 1)

\* the keyword occurs in q outside of comments as a whole-word token, in any
\* letter case, with whitespace between its words
HasTokenOutsideComments(q, parts) == SearchKeyword(Upper(CommentsBlanked(q)), parts)

MutatingKeywords == {<<W_DELETE>>, <<W_UPDATE>>, <<W_INSERT>>, <<W_DROP, W_TABLE>>,
                     <<W_ALTER, W_TABLE>>, <<W_GRANT>>}

(***************************************************************************)
(* C6. Claim: whenever DELETE, UPDATE, INSERT, DROP TABLE, ALTER TABLE or  *)
(* GRANT occurs in the SQL outside of comments as a whole-word token,      *)
(* validate_query_type returns not-allowed, also when the statement starts *)
(* with SELECT.                                                            *)
(***************************************************************************)
C6_ProhibitedTokenRejected ==
    (/\ ret.fn = "validate_query_type"
     /\ \E kw \in MutatingKeywords : HasTokenOutsideComments(sql, kw))
    => ~ret.out.valid

(***************************************************************************)
(* C7. Claim: when the SQL holds no prohibited token, validate_query_type  *)
(* returns allowed exactly when the text left after removing the comments  *)
(* and trimming the surrounding whitespace starts with SELECT or WITH.     *)
(***************************************************************************)
NoProhibitedToken(q) ==
    \A k \in 1..Len(prohibited_patterns) :
        /\ ~HasTokenOutsideComments(q, prohibited_patterns[k].parts)
        /\ ~SearchKeyword(StripComments(q), prohibited_patterns[k].parts)

TrimmedStatement(q) == Strip(Upper(CommentsRemoved(q)))

C7_SelectOrWithDecides ==
    (ret.fn = "validate_query_type" /\ NoProhibitedToken(sql))
    => (ret.out.valid <=>
            (StartsWith(TrimmedStatement(sql), W_SELECT) \/ StartsWith(TrimmedStatement(sql), W_WITH)))

(***************************************************************************)
(* The equality predicates  customer_name = 'v'  that occur in a SQL text  *)
(***************************************************************************)
\* the text at position i reads customer_name (any letter case), optional
\* whitespace, =, optional whitespace and a quoted literal: <<v>> for the
\* literal v, <<>> when the text at i is no such predicate
PredicateAt(q, i) ==
    LET n == Len(W_customer_name)
        eq == i + n + SpaceRun(q, i + n)
        open == eq + 1 + SpaceRun(q, eq + 1)
        close == QuoteAt(q, open + 1)
    IN  IF /\ OccursAt(Lower(q), i, W_customer_name)
           /\ eq <= Len(q) /\ q[eq] = "="
           /\ open <= Len(q) /\ q[open] = "'"
           /\ close # 0
        THEN <<Slice(q, open + 1, close - 1)>>
        ELSE <<>>

\* the literals v of all predicates customer_name = 'v' in q
PredicateValues(q) == {PredicateAt(q, i)[1] : i \in {j \in 1..Len(q) : PredicateAt(q, j) # <<>>}}

IsRowValidator(fn) == fn \in {"validate_row_level_security", "validate_sql_access"}

(***************************************************************************)
(* C1, as claimed: for a non-empty identity u, a SQL text that holds a     *)
(* predicate customer_name = 'v' with v different from u is not allowed.   *)
(***************************************************************************)
C1_OtherIdentityRejected ==
    (/\ IsRowValidator(ret.fn)
     /\ ret.current_user # NoUser
     /\ \E v \in PredicateValues(sql) : v # ret.current_user)
    => ~ret.out.valid

(***************************************************************************)
(* What the validators do keep of C1: for a non-empty identity u that      *)
(* holds no '=' character, a SQL text that holds a predicate               *)
(* customer_name = 'v' with a non-empty v different from u is not allowed. *)
(***************************************************************************)
C1_OtherNonEmptyIdentityRejected ==
    (/\ IsRowValidator(ret.fn)
     /\ ret.current_user # NoUser
     /\ \A k \in 1..Len(ret.current_user) : ret.current_user[k] # "="
     /\ \E v \in PredicateValues(sql) : v # <<>> /\ v # ret.current_user)
    => ~ret.out.valid

\* the caller's own name is compared first and another customer's name
\* second, and the server's validator rejects the text
C1_Witness ==
    /\ ret.fn = "validate_sql_access"
    /\ ret.current_user = Alice
    /\ extract_customer_names_from_sql(sql) = <<Alice, Bob>>
    /\ ~ret.out.valid

(***************************************************************************)
(* C2. Claim: a SQL text that references a restricted table through        *)
(* FROM <table> or JOIN <table>, as whole words in any letter case, and    *)
(* has no WHERE is not allowed, for every principal.                       *)
(***************************************************************************)
\* q names a table of ACCESS_CONTROL["restricted_tables"]
ReferencesRestrictedTable(q) ==
    \E t \in {W_TRANSACTIONS, W_CUSTOMERS} :
        \/ SearchKeyword(Upper(q), <<W_FROM_ \o t>>)
        \/ SearchKeyword(Upper(q), <<W_JOIN_ \o t>>)

C2_UnscopedAccessRejected ==
    (/\ IsRowValidator(ret.fn)
     /\ ReferencesRestrictedTable(sql)
     /\ ~Contains(Upper(sql), W_WHERE))
    => ~ret.out.valid

(***************************************************************************)
(* C5. Claim: every SQL text that validate_query_type rejects is rejected  *)
(* by the row-level validator, for every principal.                        *)
(***************************************************************************)
C5_ClassifierVerdictPropagated ==
    (IsRowValidator(ret.fn) /\ ~validate_query_type(sql).valid)
    => ~ret.out.valid

(***************************************************************************)
(* agent/mcp_toolbox_server.py: the database tools                         *)
(***************************************************************************)
\* s.replace(w, ""): every occurrence of w removed, left to right
RECURSIVE RemoveAll(_, _, _)
RemoveAll(s, w, i) ==
    LET at == FindFrom(s, i, w)
    IN  IF at = 0 THEN Slice(s, i, Len(s))
        ELSE Slice(s, i, at - 1) \o RemoveAll(s, w, at + Len(w))

\* the character ` , which a TLA+ string cannot hold
Backtick == "backtick"

FENCE == <<Backtick,Backtick,Backtick>>

\* sql_query.strip().replace("```sql", "").replace("```", "")
CleanSql(q) == RemoveAll(RemoveAll(Strip(q), <<Backtick,Backtick,Backtick,"s","q","l">>, 1), FENCE, 1)

\* str(n) for a natural number n
DigitStr == <<"0","1","2","3","4","5","6","7","8","9">>
RECURSIVE NatToStr(_)
NatToStr(n) == IF n < 10 THEN <<DigitStr[n + 1]>> ELSE NatToStr(n \div 10) \o <<DigitStr[(n % 10) + 1]>>
IntToStr(n) == IF n < 0 THEN <<"-">> \o NatToStr(-n) ELSE NatToStr(n)

Min(a, b) == IF a < b THEN a ELSE b
Max(a, b) == IF a > b THEN a ELSE b

\* the phrases _check_access_permission looks for
NL_PATTERNS == {<<"a","l","l"," ","c","u","s","t","o","m","e","r","s">>, <<"a","l","l"," ","u","s","e","r","s">>, <<"e","v","e","r","y"," ","c","u","s","t","o","m","e","r">>, <<"l","i","s","t"," ","a","l","l"," ","c","u","s","t","o","m","e","r","s">>,
                <<"s","h","o","w"," ","a","l","l"," ","c","u","s","t","o","m","e","r","s">>, <<"e","v","e","r","y"," ","u","s","e","r">>}

\* a check that also blocks a request naming a customer other than the caller
_check_access_permission_named(natural_language_query, current_user) ==
    IF current_user = NoUser
    THEN [valid |-> FALSE, msg |-> "Authentication required to access database."]
    ELSE IF \/ \E p \in NL_PATTERNS : Contains(Lower(natural_language_query), p)
            \/ \E u \in {Alice, Bob} \ {current_user} : Contains(natural_language_query, u)
    THEN [valid |-> FALSE, msg |-> "Access Denied: You can only access your own data."]
    ELSE [valid |-> TRUE, msg |-> ""]

_check_access_permission(natural_language_query, current_user) ==
    IF current_user = NoUser
    THEN [valid |-> FALSE, msg |-> "Authentication required to access database."]
    ELSE IF \E p \in NL_PATTERNS : Contains(Lower(natural_language_query), p)
    THEN [valid |-> FALSE, msg |-> "Access Denied: You can only access your own data."]
    ELSE [valid |-> TRUE, msg |-> ""]

\* what the query executor (BigQuery) does with a submitted statement: it
\* raises, or returns a table with its column names and rows
NAME == "customer_name"
X_raise == [kind |-> "raise", exc |-> <<"4","0","0"," ","S","y","n","t","a","x"," ","e","r","r","o","r",":"," ","U","n","e","x","p","e","c","t","e","d"," ","k","e","y","w","o","r","d"," ","a","t"," ","[","1",":","1","]">>]
ExecutorOutcomes == {X_raise, [kind |-> "table", columns |-> {NAME}, rows |-> <<>>], [kind |-> "table", columns |-> {NAME}, rows |-> <<[customer_name |-> Alice]>>], [kind |-> "table", columns |-> {NAME}, rows |-> <<[customer_name |-> Alice], [customer_name |-> Bob]>>], [kind |-> "table", columns |-> {"total"}, rows |-> <<[total |-> 3]>>]}

\* the rows of a table that carry a customer_name other than current_user
UnauthorizedRows(df, current_user) ==
    {i \in 1..Len(df.rows) : df.rows[i].customer_name # current_user}

NoDf == [kind |-> "None"]

\* a step of a request: the stage, the SQL text it handles, and its verdict
Event(ev, text, allowed) == [ev |-> ev, sql |-> text, allowed |-> allowed]
NoExc == <<>>

\* _execute_query from line 280 on, with the validator's verdict v and the
\* cleaned statement clean_sql in hand: its return value (text_result,
\* df_result), the steps it takes and the lines it prints
_execute_query_body(sql_query, current_user, outcome, v, clean_sql) ==
    LET validated == IF current_user # NoUser
                     THEN <<Event("VALIDATE", sql_query, v.valid)>>
                     ELSE <<>>
        submitted == <<Event("EXECUTE", clean_sql, TRUE)>>
        executing == <<[line |-> "Executing SQL for user", status |-> "ALLOWED"]>>
    IN  IF current_user # NoUser /\ ~v.valid
        THEN [text |-> v.msg, exc |-> NoExc, df |-> NoDf, trace |-> validated,
              log |-> <<[line |-> "[SECURITY BLOCKED]", status |-> "BLOCKED"]>>]
        ELSE IF outcome.kind = "raise"
        THEN [text |-> "An error occurred while executing the BigQuery query: ",
              exc |-> outcome.exc, df |-> NoDf, trace |-> validated \o submitted,
              log |-> executing \o <<[line |-> "ERROR DETAILS", status |-> "ERROR"]>>]
        ELSE IF /\ current_user # NoUser
                /\ outcome.rows # <<>>
                /\ NAME \in outcome.columns
                /\ UnauthorizedRows(outcome, current_user) # {}
        THEN [text |-> "Security validation failed: Query returned unauthorized data.",
              exc |-> NoExc, df |-> NoDf,
              trace |-> validated \o submitted \o <<Event("RESULT_AUDIT", <<>>, FALSE)>>,
              log |-> executing \o <<[line |-> "[SECURITY] Post-execution check FAILED", status |-> "BLOCKED"]>>]
        ELSE IF outcome.rows = <<>>
        THEN [text |-> "The query executed successfully but returned no results.",
              exc |-> NoExc, df |-> NoDf, trace |-> validated \o submitted, log |-> executing]
        ELSE [text |-> "results.to_string(index=False)", exc |-> NoExc, df |-> outcome,
              trace |-> validated \o submitted, log |-> executing]

_execute_query(sql_query, current_user, outcome) ==
    _execute_query_body(sql_query, current_user, outcome,
                        validate_sql_access(sql_query, current_user), CleanSql(sql_query))

\* what a tool returns to its caller: the kind of answer, its fixed text, the
\* exception text interpolated into it, and the result rows it shows
Response(kind, text, exc, rows) == [kind |-> kind, text |-> text, exc |-> exc, rows |-> rows]
Outcome(resp, steps, lines) == [response |-> resp, trace |-> steps, log |-> lines]

ACCESS_DENIED == <<"A","C","C","E","S","S","_","D","E","N","I","E","D">>
cannot_answer == <<"c","a","n","n","o","t"," ","a","n","s","w","e","r">>

\* query_customer_database with the test of current_user (line 332) left out
query_customer_database_body_open(current_user, llm, gate, sql_query, sql_upper, first, second) ==
    LET checked == <<Event("NL_CHECK", <<>>, gate.valid)>>
        generated == checked \o <<Event("GENERATE", llm, TRUE)>>
        executed == generated \o first.trace \o second.trace
    IN  IF ~gate.valid
        THEN Outcome(Response("nl_blocked", gate.msg, NoExc, <<>>), checked,
                     <<[line |-> "[SECURITY] Blocked at NL level", status |-> "BLOCKED"]>>)
        ELSE IF Contains(sql_query, ACCESS_DENIED)
        THEN Outcome(Response("access_denied", "Access Denied: You can only query your own data.", NoExc, <<>>),
                     generated, <<>>)
        ELSE IF Contains(Lower(sql_query), cannot_answer)
        THEN Outcome(Response("cannot_answer", "I cannot answer that question with the available database schema.", NoExc, <<>>),
                     generated, <<>>)
        ELSE IF ~(StartsWith(sql_upper, W_SELECT) \/ StartsWith(sql_upper, W_WITH))
        THEN Outcome(Response("bad_sql", "I encountered an issue generating a SQL query.", NoExc, <<>>),
                     generated, <<>>)
        ELSE IF second.df = NoDf
        THEN Outcome(Response("error", second.text, second.exc, <<>>), executed, first.log \o second.log)
        ELSE Outcome(Response("data", "[DATA RESULTS]", NoExc, second.df.rows),
                     executed \o <<Event("FORMAT", <<>>, TRUE)>>, first.log \o second.log)

\* query_customer_database once the access check (gate), the generated
\* statement and the two runs of _execute_query (lines 366 and 372) are in hand
query_customer_database_body(current_user, llm, gate, sql_query, sql_upper, first, second) ==
    LET checked == <<Event("NL_CHECK", <<>>, gate.valid)>>
        generated == checked \o <<Event("GENERATE", llm, TRUE)>>
        executed == generated \o first.trace \o second.trace
    IN  IF current_user = NoUser
        THEN Outcome(Response("auth", "Access Denied: Authentication required to access customer data.", NoExc, <<>>),
                     <<>>, <<>>)
        ELSE IF ~gate.valid
        THEN Outcome(Response("nl_blocked", gate.msg, NoExc, <<>>), checked,
                     <<[line |-> "[SECURITY] Blocked at NL level", status |-> "BLOCKED"]>>)
        ELSE IF Contains(sql_query, ACCESS_DENIED)
        THEN Outcome(Response("access_denied", "Access Denied: You can only query your own data.", NoExc, <<>>),
                     generated, <<>>)
        ELSE IF Contains(Lower(sql_query), cannot_answer)
        THEN Outcome(Response("cannot_answer", "I cannot answer that question with the available database schema.", NoExc, <<>>),
                     generated, <<>>)
        ELSE IF ~(StartsWith(sql_upper, W_SELECT) \/ StartsWith(sql_upper, W_WITH))
        THEN Outcome(Response("bad_sql", "I encountered an issue generating a SQL query.", NoExc, <<>>),
                     generated, <<>>)
        ELSE IF second.df = NoDf
        THEN Outcome(Response("error", second.text, second.exc, <<>>), executed, first.log \o second.log)
        ELSE Outcome(Response("data", "[DATA RESULTS]", NoExc, second.df.rows),
                     executed \o <<Event("FORMAT", <<>>, TRUE)>>, first.log \o second.log)

query_customer_database_sql(natural_language_query, current_user, llm, out1, out2, sql_query) ==
    query_customer_database_body(current_user, llm,
        _check_access_permission(natural_language_query, current_user),
        sql_query,
        Strip(RemoveAll(RemoveAll(Upper(sql_query), <<Backtick,Backtick,Backtick,"S","Q","L">>, 1), FENCE, 1)),
        _execute_query(sql_query, current_user, out1),
        _execute_query(sql_query, current_user, out2))

query_customer_database(natural_language_query, current_user, llm, out1, out2) ==
    query_customer_database_sql(natural_language_query, current_user, llm, out1, out2, Strip(llm))

\* the statement get_customer_summary_statistics builds for a metric, with
\* time_period and group_by left at None; the select lists are shortened
SummarySql(metric_type, current_user) ==
    LET base_query == <<"\n","F","R","O","M"," ","u","p","i",".","t","r","a","n","s","a","c","t","i","o","n","s"," ","t","\n","J","O","I","N"," ","u","p","i",".","c","u","s","t","o","m","e","r","s"," ","c"," ","O","N"," ","t",".","c","u","s","t","o","m","e","r","_","i","d"," ","="," ","c",".","c","u","s","t","o","m","e","r","_","i","d","\n","W","H","E","R","E"," ","c",".","c","u","s","t","o","m","e","r","_","n","a","m","e"," ","="," ","'">>
                      \o current_user \o <<"'","\n","\n">>
    IN  IF metric_type = "transaction_count"
        THEN <<"\n","S","E","L","E","C","T"," ","C","O","U","N","T","(","*",")"," ","a","s"," ","t","o","t","a","l","_","t","r","a","n","s","a","c","t","i","o","n","s">> \o base_query
        ELSE <<"\n","S","E","L","E","C","T"," ","F","O","R","M","A","T","_","D","A","T","E","(","'","%","Y","-","%","m","'",","," ","t",".","t","r","a","n","s","a","c","t","i","o","n","_","d","a","t","e",")"," ","a","s"," ","m","o","n","t","h",","," ","C","O","U","N","T","(","*",")"," ","a","s"," ","t","r","a","n","s","a","c","t","i","o","n","_","c","o","u","n","t">>
             \o base_query \o <<"G","R","O","U","P"," ","B","Y"," ","m","o","n","t","h","\n","O","R","D","E","R"," ","B","Y"," ","m","o","n","t","h"," ","D","E","S","C","\n","L","I","M","I","T"," ","1","2","\n">>

\* get_customer_summary_statistics with the result r of _execute_query in hand
get_customer_summary_statistics_body(metric_type, current_user, r) ==
        IF current_user = NoUser
        THEN Outcome(Response("auth", "Access Denied: Authentication required.", NoExc, <<>>), <<>>, <<>>)
        ELSE IF metric_type \notin {"transaction_count", "monthly_breakdown"}
        THEN Outcome(Response("unknown_metric", "Unknown metric_type", NoExc, <<>>), <<>>, <<>>)
        ELSE IF r.df = NoDf
        THEN Outcome(Response("error", r.text, r.exc, <<>>), r.trace, r.log)
        ELSE Outcome(Response("data", "[SUMMARY RESULTS]", NoExc, r.df.rows),
                     r.trace \o <<Event("FORMAT", <<>>, TRUE)>>, r.log)

get_customer_summary_statistics(metric_type, current_user, out) ==
    get_customer_summary_statistics_body(metric_type, current_user,
        _execute_query(SummarySql(metric_type, current_user), current_user, out))

\* query_customer_database_paginated once the access check (gate), base_sql,
\* count_sql and the result r of _execute_query(paginated_sql) are in hand
query_customer_database_paginated_body(current_user, llm, count_out, gate, base_sql, count_sql, r) ==
    LET checked == <<Event("NL_CHECK", <<>>, gate.valid)>>
        generated == checked \o <<Event("GENERATE", llm, TRUE)>>
        counted == generated \o <<Event("EXECUTE", count_sql, TRUE)>>
        warned == IF count_out.kind = "table" /\ "total" \in count_out.columns /\ count_out.rows # <<>>
                  THEN <<>>
                  ELSE <<[line |-> "[Warning] Could not get count", status |-> "WARNING"]>>
    IN  IF current_user = NoUser
        THEN Outcome(Response("auth", "Access Denied: Authentication required.", NoExc, <<>>), <<>>, <<>>)
        ELSE IF ~gate.valid
        THEN Outcome(Response("nl_blocked", gate.msg, NoExc, <<>>), checked, <<>>)
        ELSE IF Contains(base_sql, ACCESS_DENIED)
        THEN Outcome(Response("access_denied", "Access Denied: You can only query your own data.", NoExc, <<>>),
                     generated, <<>>)
        ELSE IF r.df = NoDf
        THEN Outcome(Response("error", r.text, r.exc, <<>>), counted \o r.trace, warned \o r.log)
        ELSE Outcome(Response("data", "[DATA RESULTS]", NoExc, r.df.rows),
                     counted \o r.trace \o <<Event("FORMAT", <<>>, TRUE)>>, warned \o r.log)

\* the statements the tool builds from base_sql (lines 567 to 586)
query_customer_database_paginated_sql(natural_language_query, current_user, page, page_size0, order_by, llm, count_out, out, base_sql) ==
    LET page_size == Min(Max(1, page_size0), 1000)
        offset == (page - 1) * page_size
        count_sql == <<"S","E","L","E","C","T"," ","C","O","U","N","T","(","*",")"," ","a","s"," ","t","o","t","a","l"," ","F","R","O","M"," ","(">> \o base_sql \o <<")"," ","a","s"," ","s","u","b","q","u","e","r","y">>
        paginated_sql == base_sql
                         \o (IF order_by # <<>> THEN <<" ","O","R","D","E","R"," ","B","Y"," ">> \o order_by ELSE <<>>)
                         \o <<" ","L","I","M","I","T"," ">> \o IntToStr(page_size) \o <<" ","O","F","F","S","E","T"," ">> \o IntToStr(offset)
    IN  query_customer_database_paginated_body(current_user, llm, count_out,
            _check_access_permission(natural_language_query, current_user),
            base_sql, count_sql, _execute_query(paginated_sql, current_user, out))

query_customer_database_paginated(natural_language_query, current_user, page, page_size0, order_by, llm, count_out, out) ==
    query_customer_database_paginated_sql(natural_language_query, current_user, page, page_size0,
                                          order_by, llm, count_out, out, CleanSql(llm))

\* query_customer_database_smart once the access check (gate), the cleaned
\* statement sql0, the statement sql_query with its LIMIT and the validator's
\* verdict v on it are in hand
query_customer_database_smart_body(current_user, llm, out, gate, sql0, sql_query, v) ==
    LET checked == <<Event("NL_CHECK", <<>>, gate.valid)>>
        generated == checked \o <<Event("GENERATE", llm, TRUE)>>
        submitted == generated \o <<Event("EXECUTE", sql_query, TRUE)>>
        validated == submitted \o <<Event("VALIDATE", sql_query, v.valid)>>
    IN  IF current_user = NoUser
        THEN Outcome(Response("auth", "Access Denied: Authentication required.", NoExc, <<>>), <<>>, <<>>)
        ELSE IF ~gate.valid
        THEN Outcome(Response("nl_blocked", gate.msg, NoExc, <<>>), checked, <<>>)
        ELSE IF Contains(sql0, ACCESS_DENIED)
        THEN Outcome(Response("access_denied", "Access Denied: You can only query your own data.", NoExc, <<>>),
                     generated, <<>>)
        ELSE IF out.kind = "raise_on_submit"
        THEN Outcome(Response("error", "[ERROR]", out.exc, <<>>), submitted, <<>>)
        ELSE IF ~v.valid
        THEN Outcome(Response("sql_blocked", v.msg, NoExc, <<>>), validated, <<>>)
        ELSE IF out.kind = "raise"
        THEN Outcome(Response("error", "[ERROR]", out.exc, <<>>), validated, <<>>)
        ELSE Outcome(Response("data", "[DATA RESULTS]", NoExc, out.rows),
                     validated \o <<Event("FORMAT", <<>>, TRUE)>>,
                     <<[line |-> "Performance", status |-> "INFO"]>>)

query_customer_database_smart_validate(natural_language_query, current_user, llm, out, sql0, sql_query) ==
    query_customer_database_smart_body(current_user, llm, out,
        _check_access_permission(natural_language_query, current_user),
        sql0, sql_query, validate_sql_access(sql_query, current_user))

\* lines 666 to 688: the limit is clamped and appended when the text has none
query_customer_database_smart_sql(natural_language_query, current_user, result_limit0, llm, out, sql0) ==
    LET result_limit == Min(Max(1, result_limit0), 1000)
        limited == ~Contains(Upper(sql0), <<"L","I","M","I","T">>)
        tail == IF limited THEN <<" ","L","I","M","I","T"," ">> \o IntToStr(result_limit) ELSE <<>>
    IN  query_customer_database_smart_validate(natural_language_query, current_user, llm, out,
                                               sql0, sql0 \o tail)

query_customer_database_smart(natural_language_query, current_user, result_limit0, llm, out) ==
    query_customer_database_smart_sql(natural_language_query, current_user, result_limit0, llm, out,
                                      CleanSql(llm))

(***************************************************************************)
(* The server at work: a tool call arrives, its handler runs to the end    *)
(***************************************************************************)
MaxRequests == 2

\* the callers of the tools: two authenticated customers, and no current_user
Callers == {Alice, Bob, NoUser}

\* questions a caller may ask
NLQueries ==
    {<<"s","h","o","w"," ","m","y"," ","t","r","a","n","s","a","c","t","i","o","n","s">>,
     <<"S","h","o","w"," ","A","L","L"," ","c","u","s","t","o","m","e","r","s">>,
     <<"t","o","t","a","l"," ","c","u","s","t","o","m","e","r","s">>,
     <<"s","h","o","w"," ","B","o","b","'","s"," ","t","r","a","n","s","a","c","t","i","o","n","s">>}

\* statements the SQL generator (the LLM) may answer with
GeneratedSql ==
    {<<"S","E","L","E","C","T"," ","*"," ","F","R","O","M"," ","u","p","i",".","c","u","s","t","o","m","e","r","s"," ","W","H","E","R","E"," ","c","u","s","t","o","m","e","r","_","n","a","m","e"," ","="," ","'","A","l","i","c","e","'">>,
     <<"S","E","L","E","C","T"," ","*"," ","F","R","O","M"," ","u","p","i",".","c","u","s","t","o","m","e","r","s"," ","W","H","E","R","E"," ","c","u","s","t","o","m","e","r","_","n","a","m","e"," ","="," ","'","B","o","b","'">>,
     <<"S","E","L","E","C","T"," ","*"," ","F","R","O","M"," ","u","p","i",".","c","u","s","t","o","m","e","r","s"," ","W","H","E","R","E"," ","c","u","s","t","o","m","e","r","_","n","a","m","e"," ","I","N"," ","(","'","B","o","b","'",")">>,
     <<"S","E","L","E","C","T"," ","*"," ","F","R","O","M"," ","u","p","i",".","c","u","s","t","o","m","e","r","s">>,
     <<"D","E","L","E","T","E"," ","F","R","O","M"," ","u","p","i",".","c","u","s","t","o","m","e","r","s"," ","W","H","E","R","E"," ","c","u","s","t","o","m","e","r","_","n","a","m","e"," ","="," ","'","A","l","i","c","e","'">>,
     <<Backtick,Backtick,Backtick,"s","q","l","\n","S","E","L","E","C","T"," ","*"," ","F","R","O","M"," ","u","p","i",".","c","u","s","t","o","m","e","r","s"," ","W","H","E","R","E"," ","c","u","s","t","o","m","e","r","_","n","a","m","e"," ","="," ","'","A","l","i","c","e","'"," ","L","I","M","I","T"," ","5","\n",Backtick,Backtick,Backtick>>,
     <<"A","C","C","E","S","S","_","D","E","N","I","E","D">>,
     <<"I"," ","c","a","n","n","o","t"," ","a","n","s","w","e","r"," ","t","h","a","t">>}

Pending(tool) == request.tool = tool /\ response = NoResponse

Receive(req) ==
    /\ request.tool = "none" \/ response # NoResponse
    /\ nreq < MaxRequests
    /\ request' = req
    /\ response' = NoResponse
    /\ trace' = <<>>
    /\ audit' = <<>>
    /\ decisions' = 0
    /\ nreq' = nreq + 1
    /\ UNCHANGED <<sqlvars, ratevars, lockvars, authvars>>

\* the handler returns: its answer, the steps it took and the lines it printed for
\* this request are kept (the server carries nothing from one request to the next)
Return(r) ==
    /\ response' = r.response
    /\ trace' = r.trace
    /\ audit' = r.log
    /\ decisions' = Cardinality({i \in 1..Len(r.trace) : r.trace[i].ev = "VALIDATE"})
    /\ UNCHANGED <<request, nreq, sqlvars, ratevars, lockvars, authvars>>

Invoke_query_customer_database ==
    \E nl \in NLQueries, u \in Callers :
        Receive([NoRequest EXCEPT !.tool = "query_customer_database",
                                  !.natural_language_query = nl, !.current_user = u])

Serve_query_customer_database ==
    /\ Pending("query_customer_database")
    /\ \E llm \in GeneratedSql, out1 \in ExecutorOutcomes, out2 \in ExecutorOutcomes :
          Return(query_customer_database(request.natural_language_query, request.current_user,
                                         llm, out1, out2))

Invoke_get_customer_summary_statistics ==
    \E metric \in {"transaction_count", "monthly_breakdown", "bogus"}, u \in Callers :
        Receive([NoRequest EXCEPT !.tool = "get_customer_summary_statistics",
                                  !.metric_type = metric, !.current_user = u])

Serve_get_customer_summary_statistics ==
    /\ Pending("get_customer_summary_statistics")
    /\ \E out \in ExecutorOutcomes :
          Return(get_customer_summary_statistics(request.metric_type, request.current_user, out))

Invoke_query_customer_database_paginated ==
    \E nl \in NLQueries, u \in Callers, size \in {100, 5000}, order \in {<<>>, <<"a","m","o","u","n","t"," ","D","E","S","C">>} :
        Receive([NoRequest EXCEPT !.tool = "query_customer_database_paginated",
                                  !.natural_language_query = nl, !.current_user = u,
                                  !.page_size = size, !.order_by = order])

Serve_query_customer_database_paginated ==
    /\ Pending("query_customer_database_paginated")
    /\ \E llm \in GeneratedSql, count_out \in ExecutorOutcomes, out \in ExecutorOutcomes :
          Return(query_customer_database_paginated(request.natural_language_query,
                     request.current_user, request.page, request.page_size, request.order_by,
                     llm, count_out, out))

Invoke_query_customer_database_smart ==
    \E nl \in NLQueries, u \in Callers, limit \in {100, 5000} :
        Receive([NoRequest EXCEPT !.tool = "query_customer_database_smart",
                                  !.natural_language_query = nl, !.current_user = u,
                                  !.result_limit = limit])

\* the executor may also raise when the statement is submitted, before the job
\* is started
Serve_query_customer_database_smart ==
    /\ Pending("query_customer_database_smart")
    /\ \E llm \in GeneratedSql, out \in ExecutorOutcomes \cup {[kind |-> "raise_on_submit", exc |-> X_raise.exc]} :
          Return(query_customer_database_smart(request.natural_language_query,
                     request.current_user, request.result_limit, llm, out))

Next ==
    \/ Invoke_query_customer_database
    \/ Serve_query_customer_database
    \/ Invoke_get_customer_summary_statistics
    \/ Serve_get_customer_summary_statistics
    \/ Invoke_query_customer_database_paginated
    \/ Serve_query_customer_database_paginated
    \/ Invoke_query_customer_database_smart
    \/ Serve_query_customer_database_smart

Spec == Init /\ [][Next]_vars


(***************************************************************************)
(* Claims about the database tools                                         *)
(***************************************************************************)
Answered == request.tool # "none" /\ response # NoResponse

\* the positions of the steps of one kind in the steps of the request
StepsOf(ev) == {i \in 1..Len(trace) : trace[i].ev = ev}

\* the rows of the answer that carry a customer_name
NamedRows == {i \in 1..Len(response.rows) : NAME \in DOMAIN response.rows[i]}

(***************************************************************************)
(* C3. Claim: for every database tool, an answer given to an authenticated *)
(* caller shows no result row whose customer_name differs from the         *)
(* caller's current_user: a result holding such a row is discarded whole.  *)
(***************************************************************************)
C3_ForeignRowsDiscarded ==
    (Answered /\ request.current_user # NoUser)
    => \A i \in NamedRows : response.rows[i].customer_name = request.current_user

(***************************************************************************)
(* C4. Claim: in every request of every database tool, a statement is      *)
(* submitted to the executor only after the validator allowed that very    *)
(* statement, and a statement the validator rejects is never submitted,    *)
(* neither as it stands nor wrapped in another statement.                  *)
(***************************************************************************)
C4_ValidatedBeforeExecuted ==
    /\ \A e \in StepsOf("EXECUTE") :
          \E v \in StepsOf("VALIDATE") :
              /\ v < e
              /\ trace[v].allowed
              /\ CleanSql(trace[v].sql) = trace[e].sql
    /\ \A v \in StepsOf("VALIDATE") :
          ~trace[v].allowed =>
              \A e \in StepsOf("EXECUTE") : ~Contains(trace[e].sql, CleanSql(trace[v].sql))

(***************************************************************************)
(* C8. Claim: once a guard stage of a request says no, no later stage of   *)
(* the request runs. A request the natural-language check blocks never     *)
(* reaches the SQL generator; a request blocked by that check or by the    *)
(* SQL validator never reaches the executor or the formatting of results;  *)
(* and its answer is the block message.                                    *)
(***************************************************************************)
BlockedAtNL == \E i \in StepsOf("NL_CHECK") : ~trace[i].allowed
BlockedAtSql == \E i \in StepsOf("VALIDATE") : ~trace[i].allowed

C8_BlockEndsRequest ==
    /\ BlockedAtNL =>
          /\ StepsOf("GENERATE") = {}
          /\ StepsOf("VALIDATE") = {}
          /\ response.kind = "nl_blocked"
    /\ (BlockedAtNL \/ BlockedAtSql) =>
          /\ StepsOf("EXECUTE") = {}
          /\ StepsOf("RESULT_AUDIT") = {}
          /\ StepsOf("FORMAT") = {}
          /\ response.rows = <<>>
          /\ response.kind \in {"nl_blocked", "sql_blocked", "error"}

(***************************************************************************)
(* C9. Claim: a request leaves exactly one audit record for every decision *)
(* of the SQL validator, whether the statement was allowed or blocked, so  *)
(* the records of the validator are as many as its decisions.              *)
(***************************************************************************)
\* the lines _execute_query prints for the validator's verdict
ValidatorRecords ==
    {i \in 1..Len(audit) : audit[i].line \in {"[SECURITY BLOCKED]", "Executing SQL for user"}}

C9_OneRecordPerDecision == Answered => Cardinality(ValidatorRecords) = decisions


(***************************************************************************)
(* The rate limiter at work                                                *)
(***************************************************************************)
MaxChecks == 11

\* time passes: the clock is read at the instants 0, 59, 60 and 61
Tick ==
    /\ \E t \in {0, 59, 60, 61} : t > now /\ now' = t
    /\ UNCHANGED <<windows, rate_verdict, allowed_at, nchecks, sqlvars, srvvars, lockvars, authvars>>

\* a request of an identity asks the rate limiter
Call_check_and_record ==
    /\ nchecks < MaxChecks
    /\ \E id \in RateIdentities :
          LET r == check_and_record(windows[id], id, now)
          IN  /\ windows' = [windows EXCEPT ![id] = r.window]
              /\ rate_verdict' = r.verdict
              /\ allowed_at' = IF r.verdict.allowed
                               THEN [allowed_at EXCEPT ![id] = Append(@, now)]
                               ELSE allowed_at
    /\ nchecks' = nchecks + 1
    /\ UNCHANGED <<now, sqlvars, srvvars, lockvars, authvars>>

\* reset_session(identity) clears both counters
Call_reset_session ==
    /\ \E id \in RateIdentities :
          /\ windows[id] # NoWindow
          /\ windows' = [windows EXCEPT ![id] = NoWindow]
          /\ allowed_at' = [allowed_at EXCEPT ![id] = <<>>]
    /\ UNCHANGED <<now, rate_verdict, nchecks, sqlvars, srvvars, lockvars, authvars>>

NextRateLimiter == Tick \/ Call_check_and_record \/ Call_reset_session
SpecRateLimiter == Init /\ [][NextRateLimiter]_vars

\* the calls allowed to id, since its latest reset, in the 60 seconds from a on
AllowedIn(id, a) ==
    {i \in 1..Len(allowed_at[id]) :
        a <= allowed_at[id][i] /\ allowed_at[id][i] < a + window_seconds}

\* the calls allowed to id less than 60 seconds before time t
AllowedBefore(id, t) ==
    {i \in 1..Len(allowed_at[id]) : t - allowed_at[id][i] < window_seconds}

\* the calls allowed to id at most 60 seconds before time t
AllowedUpTo(id, t) ==
    {i \in 1..Len(allowed_at[id]) : t - allowed_at[id][i] <= window_seconds}

\* a check of id has just been answered
Checked(id) == nchecks' = nchecks + 1 /\ rate_verdict'.identity = id

(***************************************************************************)
(* C10. The per-minute cap: for every identity, no 60 seconds hold more    *)
(* than max_per_minute (10) calls allowed since the identity's latest      *)
(* reset; a check made when fewer than 10 calls were allowed at most 60    *)
(* seconds before it, with the session cap not reached, is allowed; and a  *)
(* check made when 10 calls were allowed less than 60 seconds before it    *)
(* fails with RATE_LIMITED and is not recorded.                            *)
(***************************************************************************)
C10_PerMinuteCap ==
    /\ [](\A id \in RateIdentities : \A a \in 0..now :
              Cardinality(AllowedIn(id, a)) <= max_per_minute)
    /\ [][\A id \in RateIdentities :
              Checked(id) =>
                  /\ (/\ Cardinality(AllowedUpTo(id, now)) < max_per_minute
                      /\ windows[id].session_count < max_per_session)
                     => rate_verdict'.allowed /\ rate_verdict'.category = NONE
                  /\ Cardinality(AllowedBefore(id, now)) >= max_per_minute
                     => /\ ~rate_verdict'.allowed
                        /\ rate_verdict'.category = RATE_LIMITED
                        /\ allowed_at'[id] = allowed_at[id]]_vars

\* ten calls of one identity were allowed within one minute and its eleventh
\* check in that minute was answered RATE_LIMITED
C10_Witness ==
    \E id \in RateIdentities :
        /\ Len(allowed_at[id]) = max_per_minute
        /\ now - allowed_at[id][1] < window_seconds
        /\ rate_verdict = Verdict(id, FALSE, RATE_LIMITED, "per-minute limit")


(***************************************************************************)
(* A session that is used up: one identity spends each minute's allowance  *)
(* and waits for the window to slide, until the session cap is reached.    *)
(***************************************************************************)
MaxSessionChecks == 112
MaxSessionTime == 612

\* the identity whose session is used up
Spender == Alice

\* a request of the spender asks the rate limiter
Call_check_and_record_spender ==
    /\ nchecks < MaxSessionChecks
    /\ LET r == check_and_record(windows[Spender], Spender, now)
       IN  /\ windows' = [windows EXCEPT ![Spender] = r.window]
           /\ rate_verdict' = r.verdict
           /\ allowed_at' = IF r.verdict.allowed
                            THEN [allowed_at EXCEPT ![Spender] = Append(@, now)]
                            ELSE allowed_at
    /\ nchecks' = nchecks + 1
    /\ UNCHANGED <<now, sqlvars, srvvars, lockvars, authvars>>

\* a caller throttled at the time of its latest recorded call waits until
\* the window has slid; a caller whose session is used up waits for any time
Wait ==
    /\ ~rate_verdict.allowed
    /\ \E d \in {1, window_seconds + 1} :
          /\ rate_verdict.reason = "per-minute limit"
                => /\ d = window_seconds + 1
                   /\ now = windows[Spender].timestamps[Len(windows[Spender].timestamps)]
          /\ now + d <= MaxSessionTime
          /\ now' = now + d
    /\ UNCHANGED <<windows, rate_verdict, allowed_at, nchecks, sqlvars, srvvars, lockvars, authvars>>

\* reset_session(identity) of a caller whose session is used up
Call_reset_session_spender ==
    /\ ~rate_verdict.allowed
    /\ rate_verdict.reason = "session limit"
    /\ windows[Spender] # NoWindow
    /\ windows' = [windows EXCEPT ![Spender] = NoWindow]
    /\ allowed_at' = [allowed_at EXCEPT ![Spender] = <<>>]
    /\ UNCHANGED <<now, rate_verdict, nchecks, sqlvars, srvvars, lockvars, authvars>>

NextSession == Call_check_and_record_spender \/ Wait \/ Call_reset_session_spender
SpecSession == Init /\ [][NextSession]_vars

(***************************************************************************)
(* C11. The session cap: the session counter of an identity never exceeds  *)
(* max_per_session (100); a check made when 100 calls were allowed since   *)
(* the identity's latest reset fails with RATE_LIMITED, whatever the time; *)
(* and the first check after reset_session(identity) is allowed again.     *)
(***************************************************************************)
C11_SessionCap ==
    /\ [](\A id \in RateIdentities :
            /\ windows[id].session_count <= max_per_session
            /\ Len(allowed_at[id]) <= max_per_session)
    /\ [][\A id \in RateIdentities :
            /\ (Checked(id) /\ Len(allowed_at[id]) >= max_per_session)
                  => /\ ~rate_verdict'.allowed
                     /\ rate_verdict'.category = RATE_LIMITED
                     /\ windows' = windows
            /\ (Checked(id) /\ windows[id] = NoWindow)
                  => /\ rate_verdict'.allowed
                     /\ windows'[id].session_count = 1]_vars

\* the session was used up, then reset, and the next call was allowed
C11_Witness ==
    /\ nchecks > max_per_session + 1
    /\ rate_verdict = Verdict(Spender, TRUE, NONE, "")
    /\ windows[Spender].session_count = 1
    /\ allowed_at[Spender] = <<now>>


(***************************************************************************)
(* Concurrent requests: each thread serves one request at a time and runs  *)
(* check_and_record in steps, holding the lock of the identity's           *)
(* RateWindow from before it reads the window until after it has written. *)
(***************************************************************************)
MaxConcurrentChecks == 12

\* the test of the lock left out: every thread may enter
Free_unlocked(id) == TRUE

\* nobody holds the lock of the identity
Free(id) == lock[id] = NoHolder

\* a thread takes a request of an identity and the lock of its RateWindow
Acquire ==
    /\ nchecks + Cardinality({th \in Threads : threads[th].pc \in {"locked", "loaded"}}) < MaxConcurrentChecks
    /\ \E th \in Threads : \E id \in RateIdentities :
          /\ threads[th].pc = "idle"
          /\ Free(id)
          /\ lock' = [lock EXCEPT ![id] = th]
          /\ threads' = [threads EXCEPT ![th] = [pc |-> "locked", identity |-> id, window |-> NoWindow]]
    /\ UNCHANGED <<ratevars, sqlvars, srvvars, authvars>>

\* the thread reads the RateWindow of the identity
Load ==
    /\ \E th \in Threads :
          /\ threads[th].pc = "locked"
          /\ threads' = [threads EXCEPT ![th].pc = "loaded",
                                        ![th].window = windows[threads[th].identity]]
    /\ UNCHANGED <<lock, ratevars, sqlvars, srvvars, authvars>>

\* the thread decides on the RateWindow it has read and writes it back
Store ==
    /\ \E th \in Threads :
          LET id == threads[th].identity
              r == check_and_record(threads[th].window, id, now)
          IN  /\ threads[th].pc = "loaded"
              /\ windows' = [windows EXCEPT ![id] = r.window]
              /\ rate_verdict' = r.verdict
              /\ allowed_at' = IF r.verdict.allowed
                               THEN [allowed_at EXCEPT ![id] = Append(@, now)]
                               ELSE allowed_at
              /\ threads' = [threads EXCEPT ![th].pc = "stored"]
    /\ nchecks' = nchecks + 1
    /\ UNCHANGED <<now, lock, sqlvars, srvvars, authvars>>

\* the thread gives the lock back and answers the request
Release ==
    /\ \E th \in Threads :
          /\ threads[th].pc = "stored"
          /\ lock' = [lock EXCEPT ![threads[th].identity] = NoHolder]
          /\ threads' = [threads EXCEPT ![th] = NoCall]
    /\ UNCHANGED <<ratevars, sqlvars, srvvars, authvars>>

\* reset_session(identity) under the lock of the identity
Call_reset_session_locked ==
    /\ \E id \in RateIdentities :
          /\ Free(id)
          /\ windows[id] # NoWindow
          /\ windows' = [windows EXCEPT ![id] = NoWindow]
          /\ allowed_at' = [allowed_at EXCEPT ![id] = <<>>]
    /\ UNCHANGED <<now, rate_verdict, nchecks, lockvars, sqlvars, srvvars, authvars>>

NextConcurrent == Acquire \/ Load \/ Store \/ Release \/ Call_reset_session_locked
SpecConcurrent == Init /\ [][NextConcurrent]_vars

\* the threads that are between taking and giving back the lock of id
Inside(id) == {th \in Threads : threads[th].pc # "idle" /\ threads[th].identity = id}

(***************************************************************************)
(* C12. Concurrent calls for one identity are serialized: at most one      *)
(* thread is inside check_and_record for an identity; and in every         *)
(* interleaving the session counter of an identity is the number of calls  *)
(* allowed to it since its latest reset, no 60 seconds hold more than      *)
(* max_per_minute of them and the counter is at most max_per_session.      *)
(***************************************************************************)
C12_CallsSerialized ==
    \A id \in RateIdentities :
        /\ Cardinality(Inside(id)) <= 1
        /\ windows[id].session_count = Len(allowed_at[id])
        /\ Len(windows[id].timestamps) <= max_per_minute
        /\ \A a \in 0..now : Cardinality(AllowedIn(id, a)) <= max_per_minute
        /\ windows[id].session_count <= max_per_session

\* two threads serve the same identity, one holds the lock and has read the
\* RateWindow, the other waits; the identity has used its minute
C12_Witness ==
    /\ rate_verdict = Verdict(Alice, FALSE, RATE_LIMITED, "per-minute limit")
    /\ windows[Alice].session_count = max_per_minute
    /\ \E th \in Threads : threads[th].pc = "loaded" /\ threads[th].identity = Alice
    /\ \E th \in Threads : threads[th].pc = "idle"


\* the per-minute cap throttles id: its window holds max_per_minute calls
Throttled(id) == Len(windows[id].timestamps) >= max_per_minute

(***************************************************************************)
(* C13. Recovery: when the per-minute cap throttles an identity whose      *)
(* session cap is not reached, a check made more than 60 seconds after     *)
(* the earliest recorded call is allowed and recorded; the throttle does   *)
(* not outlast the window.                                                 *)
(***************************************************************************)
C13_ThrottleRecovers ==
    [][\A id \in RateIdentities :
          (/\ Checked(id)
           /\ Throttled(id)
           /\ windows[id].session_count < max_per_session
           /\ now - windows[id].timestamps[1] > window_seconds)
          => /\ rate_verdict' = Verdict(id, TRUE, NONE, "")
             /\ windows'[id].session_count = windows[id].session_count + 1
             /\ allowed_at'[id] = Append(allowed_at[id], now)]_vars

\* the eleventh check was rejected in the first minute and the twelfth,
\* a window later, is allowed
C13_Witness ==
    /\ nchecks = max_per_minute + 2
    /\ now = window_seconds + 1
    /\ rate_verdict = Verdict(Spender, TRUE, NONE, "")
    /\ windows[Spender].session_count = max_per_minute + 1
    /\ windows[Spender].timestamps = <<now>>

\* the timestamps of a RateWindow are times of calls allowed to id
RecordedAreAllowed(id) ==
    \A i \in 1..Len(windows[id].timestamps) :
        \E j \in 1..Len(allowed_at[id]) : allowed_at[id][j] = windows[id].timestamps[i]

(***************************************************************************)
(* C14. A rejected check records nothing: it leaves the session counter    *)
(* as it was and adds no timestamp, so that the counter is the number of   *)
(* allowed calls and every recorded timestamp is the time of an allowed    *)
(* call; and a check that meets both caps is rejected with the reason      *)
(* "session limit".                                                        *)
(***************************************************************************)
C14_RejectedNotRecorded ==
    /\ [](\A id \in RateIdentities :
            /\ windows[id].session_count = Len(allowed_at[id])
            /\ RecordedAreAllowed(id))
    /\ [][\A id \in RateIdentities :
            /\ (Checked(id) /\ ~rate_verdict'.allowed)
                  => /\ windows'[id].session_count = windows[id].session_count
                     /\ windows'[id].timestamps \in
                            {windows[id].timestamps, Pruned(windows[id].timestamps, now)}
                     /\ rate_verdict'.category = RATE_LIMITED
                     /\ rate_verdict'.reason \in {"session limit", "per-minute limit"}
            /\ (/\ Checked(id)
                /\ windows[id].session_count >= max_per_session
                /\ Cardinality(AllowedUpTo(id, now)) >= max_per_minute)
                  => rate_verdict' = Verdict(id, FALSE, RATE_LIMITED, "session limit")]_vars

\* a check met both caps: the hundredth call was the tenth of its minute
C14_Witness ==
    /\ rate_verdict = Verdict(Spender, FALSE, RATE_LIMITED, "session limit")
    /\ windows[Spender].session_count = max_per_session
    /\ Len(Pruned(windows[Spender].timestamps, now)) = max_per_minute
    /\ Cardinality(AllowedUpTo(Spender, now)) = max_per_minute


(***************************************************************************)
(* validate_natural_language_query of security_utils.py: the phrases it    *)
(* looks for in the lower-cased request, and its verdict.                  *)
(***************************************************************************)
nl_prohibited_patterns ==
    {<<"a","l","l"," ","c","u","s","t","o","m","e","r","s">>, <<"a","l","l"," ","u","s","e","r","s">>, <<"e","v","e","r","y"," ","c","u","s","t","o","m","e","r">>, <<"e","v","e","r","y"," ","u","s","e","r">>,
     <<"l","i","s","t"," ","a","l","l"," ","c","u","s","t","o","m","e","r","s">>, <<"s","h","o","w"," ","a","l","l"," ","c","u","s","t","o","m","e","r","s">>, <<"t","o","t","a","l"," ","c","u","s","t","o","m","e","r","s">>,
     <<"c","o","u","n","t"," ","o","f"," ","c","u","s","t","o","m","e","r","s">>, <<"l","i","s","t"," ","c","u","s","t","o","m","e","r","s">>, <<"s","h","o","w"," ","c","u","s","t","o","m","e","r","s">>,
     <<"a","l","l"," ","a","c","c","o","u","n","t","s">>, <<"e","v","e","r","y"," ","a","c","c","o","u","n","t">>}

\* validate_natural_language_query that gives no reason for a blocked phrase
validate_natural_language_query_silent(query, current_user) ==
    IF current_user = NoUser
    THEN [valid |-> FALSE, msg |-> "Authentication required to access database."]
    ELSE IF \E p \in nl_prohibited_patterns : Contains(Lower(query), p)
    THEN [valid |-> FALSE, msg |-> ""]
    ELSE [valid |-> TRUE, msg |-> ""]

validate_natural_language_query(query, current_user) ==
    IF current_user = NoUser
    THEN [valid |-> FALSE, msg |-> "Authentication required to access database."]
    ELSE IF \E p \in nl_prohibited_patterns : Contains(Lower(query), p)
    THEN [valid |-> FALSE, msg |-> "Access Denied: You can only access your own data."]
    ELSE [valid |-> TRUE, msg |-> ""]

\* the request asks for everyone's data: its lower-cased text holds a phrase
EnumeratesEveryone(query) == \E p \in nl_prohibited_patterns : Contains(Lower(query), p)

\* the tools that take a free-text request
NLTools == {"query_customer_database", "query_customer_database_paginated", "query_customer_database_smart"}

(***************************************************************************)
(* C15. Claim: for a caller with a current_user, the natural-language      *)
(* check of a tool says no to every request whose lower-cased text holds   *)
(* one of the enumerate-everyone phrases ("all customers", "every user",   *)
(* "list all customers", "total customers", "count of customers", ...),    *)
(* and yes to a request that holds none of them.                           *)
(***************************************************************************)
C15_EnumerationBlocked ==
    (Answered /\ request.tool \in NLTools /\ request.current_user # NoUser)
    => /\ StepsOf("NL_CHECK") # {}
       /\ \A i \in StepsOf("NL_CHECK") :
             trace[i].allowed = ~EnumeratesEveryone(request.natural_language_query)


\* the callers that have a current_user
Principals == Callers \ {NoUser}

\* the request names a customer other than the caller
NamesOther(query, current_user) ==
    \E u \in Principals \ {current_user} : Contains(query, u)

\* the natural-language check of the request allowed it
AllowedAtNL == StepsOf("NL_CHECK") # {} /\ \A i \in StepsOf("NL_CHECK") : trace[i].allowed

(***************************************************************************)
(* C16. The natural-language check decides on the text alone: the decision *)
(* a caller with a current_user got is the decision every other            *)
(* current_user gets for the same text, in the tools' check and in         *)
(* validate_natural_language_query alike; and a request that names another *)
(* customer and holds no enumerate-everyone phrase is allowed and reaches   *)
(* the SQL generation.                                                     *)
(***************************************************************************)
C16_DecisionOnTextAlone ==
    (Answered /\ request.tool \in NLTools /\ request.current_user # NoUser)
    => /\ StepsOf("NL_CHECK") # {}
       /\ \A u \in Principals :
             /\ _check_access_permission(request.natural_language_query, u).valid = AllowedAtNL
             /\ validate_natural_language_query(request.natural_language_query, u).valid
                   = validate_natural_language_query(request.natural_language_query,
                                                     request.current_user).valid
       /\ (/\ NamesOther(request.natural_language_query, request.current_user)
           /\ ~EnumeratesEveryone(request.natural_language_query))
             => /\ AllowedAtNL
                /\ StepsOf("GENERATE") # {}
                /\ response.kind # "nl_blocked"

\* Alice asked for Bob's transactions and the request reached the SQL generation
C16_Witness ==
    /\ Answered
    /\ request.current_user = Alice
    /\ NamesOther(request.natural_language_query, Alice)
    /\ AllowedAtNL
    /\ StepsOf("GENERATE") # {}


(***************************************************************************)
(* sanitize_error_message of security_utils.py: the fixed message it       *)
(* chooses for the text of an error.                                       *)
(***************************************************************************)
sanitize_error_message(error) ==
    IF Contains(Lower(error), <<"t","i","m","e","o","u","t">>)
    THEN "Query timeout: The query took too long to execute (max 30 seconds)."
    ELSE IF Contains(Lower(error), <<"b","y","t","e","s">>) \/ Contains(Lower(error), <<"q","u","o","t","a">>)
    THEN "Query too expensive: This query would process too much data."
    ELSE IF Contains(Lower(error), <<"p","e","r","m","i","s","s","i","o","n">>) \/ Contains(Lower(error), <<"d","e","n","i","e","d">>)
    THEN "Access denied: You don't have permission to access this resource."
    ELSE IF Contains(Lower(error), <<"n","o","t"," ","f","o","u","n","d">>)
    THEN "Resource not found: The requested table or column doesn't exist."
    ELSE "An error occurred while processing your request."

\* an error text of each class the executor may raise
ErrorTexts ==
    {<<"T","i","m","e","o","u","t"," ","e","x","c","e","e","d","e","d">>, <<"Q","u","o","t","a"," ","e","x","c","e","e","d","e","d",":"," ","t","o","o"," ","m","a","n","y"," ","b","y","t","e","s"," ","b","i","l","l","e","d">>,
     <<"4","0","3"," ","P","e","r","m","i","s","s","i","o","n"," ","d","e","n","i","e","d">>, <<"4","0","4"," ","N","o","t"," ","f","o","u","n","d",":"," ","T","a","b","l","e"," ","u","p","i",".","x">>, X_raise.exc}

\* the fixed messages
SanitizedMessages == {sanitize_error_message(e) : e \in ErrorTexts}

\* the executor raised while the request was served
ExecutorRaised ==
    \/ response.exc # NoExc
    \/ \E i \in 1..Len(audit) : audit[i].line = "ERROR DETAILS"

(***************************************************************************)
(* C17. Claim: no answer of a tool carries the text of an exception; when  *)
(* the executor raised, the answer is one of the fixed messages of         *)
(* sanitize_error_message.                                                 *)
(***************************************************************************)
C17_ErrorsSanitized ==
    Answered
    => /\ response.exc = NoExc
       /\ ExecutorRaised => response.text \in SanitizedMessages


(***************************************************************************)
(* The three validators of security_utils.py, each applied to the text it  *)
(* is given: the request before any SQL is generated, the statement after. *)
(***************************************************************************)
\* the SQL generator emits one more token of a statement
AppendVerdictToken ==
    /\ ret = NoRet
    /\ ntok < MaxTokens
    /\ \E t \in {<<"S","E","L","E","C","T"," ","*"," ","F","R","O","M"," ","c","u","s","t","o","m","e","r","s">>, <<" ","W","H","E","R","E"," ">>, <<"c","u","s","t","o","m","e","r","_","n","a","m","e"," ","="," ">>, <<"'","A","l","i","c","e","'">>, <<"'","B","o","b","'">>, <<"D","e","l","e","t","e">>} : sql' = sql \o t
    /\ ntok' = ntok + 1
    /\ UNCHANGED <<ret, srvvars, ratevars, lockvars, authvars>>

Call_validate_natural_language_query ==
    /\ ret = NoRet
    /\ ntok = 0
    /\ \E q \in NLQueries, u \in Identities :
          ret' = [fn |-> "validate_natural_language_query", query |-> q, current_user |-> u,
                  out |-> validate_natural_language_query(q, u)]
    /\ UNCHANGED <<sql, ntok, srvvars, ratevars, lockvars, authvars>>

NextVerdicts ==
    \/ AppendVerdictToken
    \/ Call_validate_query_type
    \/ Call_validate_row_level_security
    \/ Call_validate_natural_language_query

SpecVerdicts == Init /\ [][NextVerdicts]_vars

(***************************************************************************)
(* C18. Every verdict of validate_query_type, validate_row_level_security  *)
(* and validate_natural_language_query carries a message exactly when it   *)
(* says no: a rejection always has a reason, and an allowed text has none. *)
(***************************************************************************)
C18_ReasonIffRejected ==
    ret # NoRet => (ret.out.valid <=> ret.out.msg = "")

\* the natural-language check rejected a request of a caller with a current_user
C18_Witness ==
    /\ ret # NoRet
    /\ ret.fn = "validate_natural_language_query"
    /\ ret.current_user = Alice
    /\ ~ret.out.valid
    /\ ret.out.msg # ""


(***************************************************************************)
(* The authenticator in use: the startup of the agent, which logs a user   *)
(* in and sets CURRENT_USER and USER_TYPE, and the calls that can be made  *)
(* to the authenticator of the process afterwards.                         *)
(***************************************************************************)
MaxAuthCalls == 6
max_attempts == 3

\* what is typed at a prompt: a VPA and a PIN or password
Credentials ==
    {<<"a","l","i","c","e","@","u","p","i">>, <<"b","o","b","@","u","p","i">>, <<"s","h","o","p","@","u","p","i">>} \X {"1234", "4321", "grocery123"}

\* get_authenticated_user: the login of the chosen user type, with the
\* credentials typed at each attempt; the customer logs in by VPA
RECURSIVE get_authenticated_user(_, _, _)
get_authenticated_user(self, user_type_choice, tries) ==
    IF user_type_choice \notin {"1", "2"} \/ tries = <<>>
    THEN [self |-> self, out |-> None, user_type |-> "None"]
    ELSE LET r == IF user_type_choice = "1"
                  THEN authenticate_by_vpa_pin(self, tries[1][1], tries[1][2], FALSE)
                  ELSE authenticate_merchant_by_vpa_password(self, tries[1][1], tries[1][2], FALSE)
         IN  IF r.out # None
             THEN [self |-> r.self, out |-> r.out,
                   user_type |-> IF user_type_choice = "1" THEN "customer" ELSE "merchant"]
             ELSE get_authenticated_user(r.self, user_type_choice, Tail(tries))

\* agent.py, lines 13 to 35
Agent_startup ==
    /\ agent = NotStarted
    /\ nauth < MaxAuthCalls
    /\ \E choice \in {"1", "2", "3"}, tries \in [1..max_attempts -> Credentials] :
          LET r == get_authenticated_user(authenticator, choice, tries)
          IN  /\ authenticator' = r.self
              /\ agent' = IF r.out = None
                          THEN Exited
                          ELSE IF r.user_type = "customer"
                          THEN [CURRENT_USER |-> r.out.name, USER_TYPE |-> "customer"]
                          ELSE [CURRENT_USER |-> r.out.merchant_vpa, USER_TYPE |-> "merchant"]
    /\ nauth' = nauth + 1
    /\ UNCHANGED <<login, cachevars, sqlvars, srvvars, ratevars, lockvars>>

Call_authenticate_by_vpa_pin ==
    /\ agent \notin {NotStarted, Exited}
    /\ nauth < MaxAuthCalls
    /\ \E c \in Credentials, raises \in BOOLEAN :
          LET r == authenticate_by_vpa_pin(authenticator, c[1], c[2], raises)
          IN  /\ authenticator' = r.self
              /\ ret' = [fn |-> "authenticate_by_vpa_pin", out |-> r.out]
    /\ nauth' = nauth + 1
    /\ UNCHANGED <<agent, login, cachevars, sql, ntok, srvvars, ratevars, lockvars>>

Call_authenticate_by_mobile_pin ==
    /\ agent \notin {NotStarted, Exited}
    /\ nauth < MaxAuthCalls
    /\ \E mobile_number \in {"9000000001", "9000000002", "9000000003"}, pin \in {"1234", "4321"}, raises \in BOOLEAN :
          LET r == authenticate_by_mobile_pin(authenticator, mobile_number, pin, raises)
          IN  /\ authenticator' = r.self
              /\ ret' = [fn |-> "authenticate_by_mobile_pin", out |-> r.out]
    /\ nauth' = nauth + 1
    /\ UNCHANGED <<agent, login, cachevars, sql, ntok, srvvars, ratevars, lockvars>>

Call_authenticate_merchant_by_vpa_password ==
    /\ agent \notin {NotStarted, Exited}
    /\ nauth < MaxAuthCalls
    /\ \E c \in Credentials, raises \in BOOLEAN :
          LET r == authenticate_merchant_by_vpa_password(authenticator, c[1], c[2], raises)
          IN  /\ authenticator' = r.self
              /\ ret' = [fn |-> "authenticate_merchant_by_vpa_password", out |-> r.out]
    /\ nauth' = nauth + 1
    /\ UNCHANGED <<agent, login, cachevars, sql, ntok, srvvars, ratevars, lockvars>>

\* CustomerAuthenticator.logout
Call_logout ==
    /\ agent \notin {NotStarted, Exited}
    /\ nauth < MaxAuthCalls
    /\ authenticator' = [authenticated_user |-> None, user_type |-> "None"]
    /\ ret' = [fn |-> "logout", out |-> None]
    /\ nauth' = nauth + 1
    /\ UNCHANGED <<agent, login, cachevars, sql, ntok, srvvars, ratevars, lockvars>>

NextAuth ==
    \/ Agent_startup
    \/ Call_authenticate_by_vpa_pin
    \/ Call_authenticate_by_mobile_pin
    \/ Call_authenticate_merchant_by_vpa_password
    \/ Call_logout

SpecAuth == Init /\ [][NextAuth]_vars

\* a user is logged in
LoggedIn == authenticator.authenticated_user # None

(***************************************************************************)
(* C19. Claim: the principal does not change during a session. From a      *)
(* successful authentication until the logout, the authenticated user and  *)
(* the user type of the authenticator stay what they are, whatever         *)
(* authentication calls are made; and CURRENT_USER and USER_TYPE, once     *)
(* set, stay what they are.                                                *)
(***************************************************************************)
C19_PrincipalImmutable ==
    [][/\ (LoggedIn /\ LoggedIn') => authenticator' = authenticator
       /\ agent \notin {NotStarted, Exited} => agent' = agent]_vars


\* the number a run of digits at the start of s spells, -1 when s starts with none
RECURSIVE DigitsValue(_, _)
DigitsValue(s, acc) ==
    IF s = <<>> \/ s[1] \notin DigitCh
    THEN acc
    ELSE DigitsValue(Tail(s), (IF acc < 0 THEN 0 ELSE acc * 10)
                              + (CHOOSE d \in 0..9 : DigitStr[d + 1] = s[1]))

\* the row bounds a statement carries: the numbers of its LIMIT clauses
RowBounds(s) ==
    {DigitsValue(Slice(s, i + 7, Len(s)), -1) :
        i \in {j \in 1..Len(s) : OccursAt(Upper(s), j, <<" ","L","I","M","I","T"," ">>)}}

\* the greatest number of rows a tool may ask for
MaxRows == 1000

(***************************************************************************)
(* C20. Claim: every statement a tool submits to the executor carries a    *)
(* row bound of at most 1000: it has a LIMIT clause, and every LIMIT       *)
(* clause it has names a number from 1 to 1000, whatever page_size or      *)
(* result_limit the caller gave.                                           *)
(***************************************************************************)
C20_RowBoundCarried ==
    \A e \in StepsOf("EXECUTE") :
        /\ RowBounds(trace[e].sql) # {}
        /\ \A n \in RowBounds(trace[e].sql) : 1 <= n /\ n <= MaxRows


(***************************************************************************)
(* The helpers that prepare text for display and for the log               *)
(***************************************************************************)
\* s * n for a str s: n copies of s, the empty string when n <= 0
StrTimes(s, n) == [i \in 1..(IF n > 0 THEN n * Len(s) ELSE 0) |-> s[((i - 1) % Len(s)) + 1]]

\* the position a slice bound i denotes in a str of length n
SliceIndex(i, n) == IF i < 0 THEN Max(0, n + i) ELSE Min(i, n)

\* s[:j]
SliceTo(s, j) == Slice(s, 1, SliceIndex(j, Len(s)))

mask_sensitive_value(value, mask_char, visible_chars) ==
    IF value = <<>> \/ Len(value) <= visible_chars
    THEN (IF value # <<>> THEN StrTimes(mask_char, Len(value)) ELSE <<>>)
    ELSE StrTimes(mask_char, Len(value) - visible_chars) \o Slice(value, SliceIndex(0 - visible_chars, Len(value)) + 1, Len(value))

format_query_for_logging(query, max_length) ==
    IF Len(query) > max_length
    THEN SliceTo(query, max_length) \o <<".",".","."," ","[","T","R","U","N","C","A","T","E","D","]">>
    ELSE query

\* one more piece of the text handed to the helpers
AppendTextToken ==
    /\ ret = NoRet
    /\ ntok < MaxTokens
    /\ \E t \in {<<"1","2","3","4">>, <<"5","6","7","8">>, <<"9","0","1","2">>, <<"3","4","5","6">>, <<"7">>, <<"S","E","L","E","C","T"," ","*"," ","F","R","O","M"," ","c","u","s","t","o","m","e","r","s">>} : sql' = sql \o t
    /\ ntok' = ntok + 1
    /\ UNCHANGED <<ret, srvvars, ratevars, lockvars, authvars>>

Call_mask_sensitive_value ==
    /\ ret = NoRet
    /\ \E mask_char \in {<<"*">>, <<"#">>}, visible_chars \in {0, 1, 4, 8} :
          ret' = [fn |-> "mask_sensitive_value", value |-> sql, mask_char |-> mask_char,
                  visible_chars |-> visible_chars,
                  out |-> mask_sensitive_value(sql, mask_char, visible_chars)]
    /\ UNCHANGED <<sql, ntok, srvvars, ratevars, lockvars, authvars>>

Call_format_query_for_logging ==
    /\ ret = NoRet
    /\ \E max_length \in {0, 3, 23, 500} :
          ret' = [fn |-> "format_query_for_logging", query |-> sql, max_length |-> max_length,
                  out |-> format_query_for_logging(sql, max_length)]
    /\ UNCHANGED <<sql, ntok, srvvars, ratevars, lockvars, authvars>>

NextText ==
    \/ AppendTextToken
    \/ Call_mask_sensitive_value
    \/ Call_format_query_for_logging

SpecText == Init /\ [][NextText]_vars

(***************************************************************************)
(* C21. Claim: for every value longer than visible_chars,                  *)
(* mask_sensitive_value returns a string of the same length whose last     *)
(* visible_chars characters are those of the value and whose other         *)
(* characters are all the mask character; a non-empty value of at most     *)
(* visible_chars characters is masked entirely; the empty value gives the  *)
(* empty string.                                                           *)
(***************************************************************************)
C21_MaskKeepsTail ==
    (ret # NoRet /\ ret.fn = "mask_sensitive_value") =>
        LET n == Len(ret.value)
            k == ret.visible_chars
        IN  /\ n > k =>
                /\ Len(ret.out) = n
                /\ \A i \in 1..n : ret.out[i] = (IF i > n - k THEN ret.value[i] ELSE ret.mask_char[1])
            /\ (n > 0 /\ n <= k) => ret.out = StrTimes(ret.mask_char, n)
            /\ n = 0 => ret.out = <<>>

\* the parts of C21 for a value of at least one visible character hold
C21_MaskKeepsTailWhenSomeVisible ==
    (ret # NoRet /\ ret.fn = "mask_sensitive_value" /\ ret.visible_chars > 0) =>
        LET n == Len(ret.value)
            k == ret.visible_chars
        IN  /\ n > k =>
                /\ Len(ret.out) = n
                /\ \A i \in 1..n : ret.out[i] = (IF i > n - k THEN ret.value[i] ELSE ret.mask_char[1])
            /\ (n > 0 /\ n <= k) => ret.out = StrTimes(ret.mask_char, n)
            /\ n = 0 => ret.out = <<>>

\* the card number of the documentation is masked as documented
C21_Documented ==
    (ret # NoRet /\ ret.fn = "mask_sensitive_value" /\ ret.value = <<"1","2","3","4","5","6","7","8","9","0","1","2","3","4","5","6">>
        /\ ret.visible_chars = 4 /\ ret.mask_char = <<"*">>)
    => ret.out = <<"*","*","*","*","*","*","*","*","*","*","*","*","3","4","5","6">>

(***************************************************************************)
(* C24. Claim: the text format_query_for_logging returns has at most       *)
(* max_length characters, and a query of at most max_length characters is  *)
(* returned unchanged.                                                     *)
(***************************************************************************)
C24_LoggedTextBounded ==
    (ret # NoRet /\ ret.fn = "format_query_for_logging") =>
        /\ Len(ret.out) <= ret.max_length
        /\ Len(ret.query) <= ret.max_length => ret.out = ret.query

\* what does hold: a short query is logged unchanged, a long one as its first
\* max_length characters followed by a marker of 15 characters
C24_TruncatedWithMarker ==
    (ret # NoRet /\ ret.fn = "format_query_for_logging") =>
        /\ Len(ret.query) <= ret.max_length => ret.out = ret.query
        /\ Len(ret.query) > ret.max_length =>
              /\ Len(ret.out) = ret.max_length + 15
              /\ SliceTo(ret.out, ret.max_length) = SliceTo(ret.query, ret.max_length)


\* every block comment of q is closed
BlockCommentsClosed(q) == ~CommentMask(q \o <<"\n", "x">>, 1, "code")[Len(q) + 2]

\* a mutating keyword stands in q, and only inside comments
KeywordOnlyInComments(q) ==
    /\ BlockCommentsClosed(q)
    /\ \E kw \in MutatingKeywords : SearchKeyword(Upper(q), kw)
    /\ \A kw \in MutatingKeywords : ~HasTokenOutsideComments(q, kw)

(***************************************************************************)
(* C22. Claim: comments are stripped before the keywords are looked for:   *)
(* when a mutating keyword stands only inside a line comment or a block    *)
(* comment of the SQL and the rest of the text is a SELECT or WITH         *)
(* statement without a prohibited token, validate_query_type returns       *)
(* allowed.                                                                *)
(***************************************************************************)
C22_CommentedKeywordAllowed ==
    (/\ ret.fn = "validate_query_type"
     /\ KeywordOnlyInComments(sql)
     /\ NoProhibitedToken(sql)
     /\ StartsWith(TrimmedStatement(sql), W_SELECT) \/ StartsWith(TrimmedStatement(sql), W_WITH))
    => ret.out.valid

\* the claim holds for the statements that begin with SELECT or WITH themselves
C22_CommentedKeywordAllowedAfterStart ==
    (/\ ret.fn = "validate_query_type"
     /\ KeywordOnlyInComments(sql)
     /\ NoProhibitedToken(sql)
     /\ StartsWith(Strip(Upper(sql)), W_SELECT) \/ StartsWith(Strip(Upper(sql)), W_WITH))
    => ret.out.valid

\* a statement with a keyword in a trailing comment was allowed
C22_AllowedCase ==
    /\ ret.fn = "validate_query_type"
    /\ KeywordOnlyInComments(sql)
    /\ ret.out.valid


\* where the words of a keyword, read from word k on at position i of s with
\* whitespace between them, end: the position after the last word, 0 when
\* they do not stand there
RECURSIVE KeywordEnd(_, _, _, _)
KeywordEnd(s, i, parts, k) ==
    IF ~OccursAt(s, i, parts[k]) THEN 0
    ELSE LET e == i + Len(parts[k])
         IN  IF k = Len(parts) THEN e
             ELSE IF SpaceRun(s, e) = 0 THEN 0
             ELSE KeywordEnd(s, e + SpaceRun(s, e), parts, k + 1)

\* the positions of s at which a keyword stands, as a word or inside one
Occurrences(s, parts) == {i \in 1..Len(s) : KeywordEnd(s, i, parts, 1) # 0}

\* the text from i up to e is a proper part of a longer identifier
PartOfIdentifier(s, i, e) ==
    \/ i > 1 /\ IsWordCh(s[i - 1])
    \/ e <= Len(s) /\ IsWordCh(s[e])

\* prohibited keywords stand in q, and each time inside a longer identifier
KeywordOnlyInIdentifiers(q) ==
    /\ \E k \in 1..Len(prohibited_patterns) : Occurrences(Upper(q), prohibited_patterns[k].parts) # {}
    /\ \A k \in 1..Len(prohibited_patterns) :
          \A i \in Occurrences(Upper(q), prohibited_patterns[k].parts) :
              PartOfIdentifier(Upper(q), i, KeywordEnd(Upper(q), i, prohibited_patterns[k].parts, 1))

(***************************************************************************)
(* C23. Claim: the keywords are matched as whole words: a SELECT statement *)
(* in which prohibited keywords stand only as proper parts of longer       *)
(* identifiers (DELETED_AT) is allowed by validate_query_type, and no      *)
(* keyword is reported.                                                    *)
(***************************************************************************)
C23_IdentifierNotKeyword ==
    (/\ ret.fn = "validate_query_type"
     /\ StartsWith(Upper(sql), W_SELECT)
     /\ KeywordOnlyInIdentifiers(sql))
    => (ret.out.valid /\ ret.out.keyword = "")

\* SELECT Deleted_at was classified
C23_Witness ==
    /\ ret.fn = "validate_query_type"
    /\ sql = <<"S","E","L","E","C","T"," ","D","e","l","e","t","e","d","_","a","t">>
    /\ ret.out.valid


(***************************************************************************)
(* C25. Claim: a caller without current_user gets the access-denied answer *)
(* from every tool, with no access check, no SQL generation and no         *)
(* execution on the way; _check_access_permission,                         *)
(* validate_natural_language_query, validate_sql_access and                *)
(* validate_row_level_security say no to such a caller whatever the text.  *)
(***************************************************************************)
C25_UnauthenticatedDenied ==
    (request.tool # "none" /\ request.current_user = NoUser) =>
        /\ Answered => (response.kind = "auth" /\ trace = <<>>)
        /\ StepsOf("EXECUTE") = {}
        /\ ~_check_access_permission(request.natural_language_query, NoUser).valid
        /\ ~validate_natural_language_query(request.natural_language_query, NoUser).valid
        /\ \A s \in GeneratedSql :
              /\ ~validate_sql_access(s, NoUser).valid
              /\ ~validate_row_level_security(s, NoUser).valid

\* a tool has answered a caller without current_user
C25_Witness ==
    /\ Answered
    /\ request.current_user = NoUser
    /\ response.kind = "auth"


(***************************************************************************)
(* C26. Claim: in every request of query_customer_database the generated   *)
(* statement is validated and then submitted to the executor at most once. *)
(***************************************************************************)
C26_ExecutedAtMostOnce ==
    (request.tool = "query_customer_database" /\ Answered) =>
        /\ Cardinality(StepsOf("EXECUTE")) <= 1
        /\ \A e \in StepsOf("EXECUTE") : \E v \in StepsOf("VALIDATE") : v < e /\ trace[v].allowed

\* what does hold: every submission follows a validation that allowed the
\* statement, and a request submits its statement at most twice
C26_ExecutedAtMostTwice ==
    (request.tool = "query_customer_database" /\ Answered) =>
        /\ Cardinality(StepsOf("EXECUTE")) <= 2
        /\ \A e \in StepsOf("EXECUTE") : \E v \in StepsOf("VALIDATE") : v < e /\ trace[v].allowed


(***************************************************************************)
(* C27. Claim: for every SQL text and every non-empty current_user,        *)
(* validate_sql_access of the server allows the text exactly when          *)
(* validate_row_level_security of security_utils allows it.                *)
(***************************************************************************)
C27_ValidatorsAgree ==
    (IsRowValidator(ret.fn) /\ ret.current_user # NoUser) =>
        (validate_sql_access(sql, ret.current_user).valid
            <=> validate_row_level_security(sql, ret.current_user).valid)


\* the records authenticate_by_vpa_pin and authenticate_by_mobile_pin store,
\* and those authenticate_merchant_by_vpa_password stores
CustomerRecords ==
    {[customer_id |-> c.customer_id, name |-> c.name, mobile_number |-> c.mobile_number,
      primary_vpa |-> c.primary_vpa] : c \in upi_customer}
MerchantRecords ==
    {[merchant_id |-> m.merchant_id, merchant_name |-> m.merchant_name,
      merchant_vpa |-> m.merchant_vpa] : m \in upi_merchant}

\* the two fields of the authenticator fit together
FieldsPaired ==
    /\ authenticator.authenticated_user = None <=> authenticator.user_type = "None"
    /\ authenticator.user_type \in {"None", "customer", "merchant"}
    /\ authenticator.user_type = "customer" => authenticator.authenticated_user \in CustomerRecords
    /\ authenticator.user_type = "merchant" => authenticator.authenticated_user \in MerchantRecords

\* an authentication call that returns None leaves the authenticator as it was
FailedCallChangesNothing ==
    (/\ nauth' = nauth + 1
     /\ ret'.fn \in {"authenticate_by_vpa_pin", "authenticate_by_mobile_pin",
                     "authenticate_merchant_by_vpa_password"}
     /\ ret'.out = None)
    => authenticator' = authenticator

(***************************************************************************)
(* C28. Claim: whatever calls of authenticate_by_vpa_pin,                  *)
(* authenticate_by_mobile_pin, authenticate_merchant_by_vpa_password and   *)
(* logout were made, with whatever outcome, authenticated_user is None     *)
(* exactly when user_type is None, user_type 'customer' goes with a        *)
(* customer record and 'merchant' with a merchant record, and a call that  *)
(* fails changes neither field.                                            *)
(***************************************************************************)
C28_FieldsPaired == []FieldsPaired /\ [][FailedCallChangesNothing]_vars

\* a call failed while a merchant was logged in
C28_Witness ==
    /\ authenticator.user_type = "merchant"
    /\ ret.fn = "authenticate_by_mobile_pin"
    /\ ret.out = None


(***************************************************************************)
(* The interactive login: the prompt loops of src/auth.py and of           *)
(* CustomerAuthenticator. A step is one round of a loop: the prompts, the  *)
(* authentication call, and the decision to return or to go round again.   *)
(***************************************************************************)
\* authenticate_user_by_password of src/auth.py, over two of its passwords
authenticate_user_by_password(password) ==
    IF password = "tony123" THEN [user |-> [username |-> <<"T","o","n","y"," ","T","o","y">>], user_type |-> "customer"]
    ELSE IF password = "grocery123" THEN [user |-> [username |-> <<"m","e","r","c","h","a","n","t","0","@","s","b","i","n">>], user_type |-> "merchant"]
    ELSE NoneNone

\* the end of a round of a loop whose authentication call returned user: the
\* return on success, the return after the last attempt, or the next round
AttemptDone(l, typed, user, user_type) ==
    LET remaining == max_attempts - l.attempt - 1
    IN  [l EXCEPT !.attempt = @ + 1, !.tried = @ + 1, !.typed = typed,
                  !.out = IF user # None THEN [user |-> user, user_type |-> user_type]
                          ELSE IF remaining > 0 THEN Running
                          ELSE NoneNone]

\* the round of _authenticate_customer in which neither 1 nor 2 is chosen,
\* with the round not counted
InvalidChoice_uncounted(l, typed) == [l EXCEPT !.typed = typed]

\* the round of _authenticate_customer in which neither 1 nor 2 is chosen:
\* continue, and after the last round the return that follows the loop
InvalidChoice(l, typed) ==
    [l EXCEPT !.attempt = @ + 1, !.typed = typed,
              !.out = IF l.attempt + 1 < max_attempts THEN Running ELSE NoneNone]

\* the interactive part of a login begins
Begin_login ==
    /\ login = NoLogin
    /\ authenticator = CustomerAuthenticator
    /\ agent = NotStarted
    /\ \E loop \in {"get_authenticated_user", "_authenticate_customer", "_authenticate_merchant"} :
          login' = [login EXCEPT !.loop = loop]
    /\ UNCHANGED <<authenticator, agent, nauth, cachevars, sqlvars, srvvars, ratevars, lockvars>>

\* a round of the loop of auth.get_authenticated_user
Attempt_get_authenticated_user ==
    /\ login.loop = "get_authenticated_user"
    /\ login.out = Running
    /\ login.attempt < max_attempts
    /\ \E password \in {"tony123", "grocery123", "letmein", ""} :
          LET r == authenticate_user_by_password(password)
          IN  login' = AttemptDone(login, [NoTyped EXCEPT !.secret = password], r.user, r.user_type)
    /\ UNCHANGED <<authenticator, agent, nauth, cachevars, sqlvars, srvvars, ratevars, lockvars>>

\* a round of the loop of _authenticate_customer
Attempt_authenticate_customer ==
    /\ login.loop = "_authenticate_customer"
    /\ login.out = Running
    /\ login.attempt < max_attempts
    /\ \/ \E vpa \in {<<"a","l","i","c","e","@","u","p","i">>, <<"s","h","o","p","@","u","p","i">>}, pin \in {"1234", "4321", "0000"}, raises \in BOOLEAN :
             LET r == authenticate_by_vpa_pin(authenticator, vpa, pin, raises)
             IN  /\ authenticator' = r.self
                 /\ login' = AttemptDone(login, [auth_method |-> "1", vpa |-> vpa, mobile |-> "", secret |-> pin],
                                         r.out, "customer")
       \/ \E mobile \in {"9000000002", "9000000003"}, pin \in {"1234", "4321"}, raises \in BOOLEAN :
             LET r == authenticate_by_mobile_pin(authenticator, mobile, pin, raises)
             IN  /\ authenticator' = r.self
                 /\ login' = AttemptDone(login, [auth_method |-> "2", vpa |-> <<>>, mobile |-> mobile, secret |-> pin],
                                         r.out, "customer")
       \/ \E auth_method \in {"3", ""} :
             /\ login' = InvalidChoice(login, [NoTyped EXCEPT !.auth_method = auth_method])
             /\ UNCHANGED authenticator
    /\ UNCHANGED <<agent, nauth, cachevars, sqlvars, srvvars, ratevars, lockvars>>

\* a round of the loop of _authenticate_merchant
Attempt_authenticate_merchant ==
    /\ login.loop = "_authenticate_merchant"
    /\ login.out = Running
    /\ login.attempt < max_attempts
    /\ \E vpa \in {<<"a","l","i","c","e","@","u","p","i">>, <<"s","h","o","p","@","u","p","i">>}, password \in {"grocery123", "1234"}, raises \in BOOLEAN :
          LET r == authenticate_merchant_by_vpa_password(authenticator, vpa, password, raises)
          IN  /\ authenticator' = r.self
              /\ login' = AttemptDone(login, [auth_method |-> "", vpa |-> vpa, mobile |-> "", secret |-> password],
                                      r.out, "merchant")
    /\ UNCHANGED <<agent, nauth, cachevars, sqlvars, srvvars, ratevars, lockvars>>

NextLogin ==
    \/ Begin_login
    \/ Attempt_get_authenticated_user
    \/ Attempt_authenticate_customer
    \/ Attempt_authenticate_merchant

SpecLogin == Init /\ [][NextLogin]_vars

\* a loop that has not returned runs its next round: the rounds are the
\* iterations of a for statement, which wait for nothing but the keyboard
SpecLoginLive == SpecLogin /\ WF_vars(NextLogin)

Returned == login.out # Running

\* the credentials typed last are those of the user returned
TypedOpens(user) ==
    \/ login.loop = "get_authenticated_user"
         /\ authenticate_user_by_password(login.typed.secret).user = user
    \/ login.loop = "_authenticate_customer"
         /\ \E c \in upi_customer :
               /\ c.customer_id = user.customer_id
               /\ c.pin_hash = hash_pin(login.typed.secret)
               /\ \/ login.typed.auth_method = "1" /\ c.primary_vpa = login.typed.vpa
                  \/ login.typed.auth_method = "2" /\ c.mobile_number = login.typed.mobile
    \/ login.loop = "_authenticate_merchant"
         /\ \E m \in upi_merchant :
               /\ m.merchant_id = user.merchant_id
               /\ m.merchant_vpa = login.typed.vpa
               /\ m.password_hash = hash_pin(login.typed.secret)

\* at most max_attempts rounds and credentials; a principal is returned with
\* the credentials that open it, (None, None) after the last round only
LoginBounded ==
    /\ login.attempt <= max_attempts
    /\ login.tried <= login.attempt
    /\ ~Returned => login.attempt < max_attempts
    /\ login.out.user # None => TypedOpens(login.out.user)
    /\ login.out = NoneNone => login.attempt = max_attempts

(***************************************************************************)
(* C29. Claim: the interactive login ends after at most 3 attempts. The    *)
(* prompt loops of auth.get_authenticated_user, _authenticate_customer and *)
(* _authenticate_merchant return the principal at the first attempt that   *)
(* succeeds and (None, None) after the third that does not; there is no    *)
(* fourth round of prompts, whatever is typed.                             *)
(***************************************************************************)
C29_LoginTerminates == []LoginBounded /\ ((login.loop # "none") ~> Returned)

\* a customer loop returned (None, None) after three rounds, one of them with
\* an invalid choice of the login method
C29_Witness ==
    /\ login.loop = "_authenticate_customer"
    /\ login.out = NoneNone
    /\ login.attempt = max_attempts
    /\ login.tried = 2


(***************************************************************************)
(* The schema cache of src/schema_cache_manager.py. The clock counts half  *)
(* days, so that a timestamp and the time of a call can lie a whole number *)
(* of days apart or half a day more.                                       *)
(***************************************************************************)
CACHE_VALIDITY_DAYS == 7
MaxClock == 17

\* SchemaCache.save_cache at time t: the file holds the timestamp and the data
save_cache(schema_info, table_contexts, t) ==
    [exists |-> TRUE, json |-> TRUE, timestamp |-> t,
     schema_info |-> schema_info, table_contexts |-> table_contexts]

\* SchemaCache.is_cache_valid at time t; (datetime.now() - cache_timestamp).days
\* is the number of whole days between the two
is_cache_valid(f, t) ==
    IF ~f.exists THEN FALSE
    ELSE IF ~f.json THEN FALSE
    ELSE (t - f.timestamp) \div 2 <= CACHE_VALIDITY_DAYS

\* SchemaCache.load_cache at time t: the cached data, or None
load_cache(f, t) ==
    IF ~f.exists THEN None
    ELSE IF ~f.json THEN None
    ELSE IF (t - f.timestamp) \div 2 > CACHE_VALIDITY_DAYS THEN None
    ELSE f

\* load_or_refresh_schema at time t with the cache file f; fetch is what
\* fetch_bigquery_schema gives: the schema of the dataset, or "raise"
load_or_refresh_schema(f, t, force_refresh, fetch) ==
    IF ~force_refresh /\ is_cache_valid(f, t) /\ load_cache(f, t) # None
    THEN [file |-> f, fetched |-> FALSE, raised |-> FALSE,
          schema_info |-> load_cache(f, t).schema_info,
          table_contexts |-> load_cache(f, t).table_contexts]
    ELSE IF fetch = "raise"
    THEN [file |-> f, fetched |-> TRUE, raised |-> TRUE, schema_info |-> "", table_contexts |-> ""]
    ELSE [file |-> save_cache(fetch, "contexts of " \o fetch, t), fetched |-> TRUE, raised |-> FALSE,
          schema_info |-> fetch, table_contexts |-> "contexts of " \o fetch]

Call_load_or_refresh_schema ==
    /\ \E force_refresh \in BOOLEAN, fetch \in {"schema 1", "schema 2", "raise"} :
          LET r == load_or_refresh_schema(cache_file, clock, force_refresh, fetch)
          IN  /\ cache_file' = r.file
              /\ ret' = [fn |-> "load_or_refresh_schema", force_refresh |-> force_refresh, at |-> clock,
                         fetched |-> r.fetched, raised |-> r.raised,
                         schema_info |-> r.schema_info, table_contexts |-> r.table_contexts]
    /\ UNCHANGED <<clock, authenticator, agent, nauth, login, sql, ntok, srvvars, ratevars, lockvars>>

\* half a day passes
Pass_half_day ==
    /\ clock < MaxClock
    /\ clock' = clock + 1
    /\ UNCHANGED <<cache_file, authenticator, agent, nauth, login, sqlvars, srvvars, ratevars, lockvars>>

\* the cache file is deleted, or is left cut short by a save_cache that did
\* not finish, so that json.load raises
Damage_cache_file ==
    /\ cache_file.exists
    /\ cache_file.json
    /\ \E exists \in BOOLEAN : cache_file' = [NoFile EXCEPT !.exists = exists]
    /\ UNCHANGED <<clock, authenticator, agent, nauth, login, sqlvars, srvvars, ratevars, lockvars>>

NextCache ==
    \/ Call_load_or_refresh_schema
    \/ Pass_half_day
    \/ Damage_cache_file

SpecCache == Init /\ [][NextCache]_vars

\* the file is there, can be read, and is not more than 7 days old at time t
NotOlderThanValidity(f, t) ==
    f.exists /\ f.json /\ t - f.timestamp <= 2 * CACHE_VALIDITY_DAYS

\* the same with the age counted in whole days
NotOlderInWholeDays(f, t) ==
    f.exists /\ f.json /\ (t - f.timestamp) \div 2 <= CACHE_VALIDITY_DAYS

\* a call of load_or_refresh_schema has just returned
Loaded == ret' # ret /\ ret'.fn = "load_or_refresh_schema" /\ ~ret'.raised

(***************************************************************************)
(* C30. Claim: load_or_refresh_schema fetches the schema and rewrites the  *)
(* cache file exactly when force_refresh is set or the cache is missing,   *)
(* unreadable or more than 7 days old. Otherwise it returns the cached     *)
(* schema_info and table_contexts and leaves the file and its timestamp    *)
(* as they are. After a refresh the cache is valid.                        *)
(***************************************************************************)
C30_RefreshIffStale ==
    [][Loaded =>
        /\ ret'.fetched <=> (ret'.force_refresh \/ ~NotOlderThanValidity(cache_file, clock))
        /\ ~ret'.fetched =>
              /\ cache_file' = cache_file
              /\ ret'.schema_info = cache_file.schema_info
              /\ ret'.table_contexts = cache_file.table_contexts
        /\ ret'.fetched =>
              /\ cache_file'.timestamp = clock
              /\ cache_file'.schema_info = ret'.schema_info
              /\ is_cache_valid(cache_file', clock)]_vars

\* what does hold: the same with the age of the cache counted in whole days,
\* so that a cache is refreshed from its eighth day on
C30_RefreshIffStaleInWholeDays ==
    [][Loaded =>
        /\ ret'.fetched <=> (ret'.force_refresh \/ ~NotOlderInWholeDays(cache_file, clock))
        /\ ~ret'.fetched =>
              /\ cache_file' = cache_file
              /\ ret'.schema_info = cache_file.schema_info
              /\ ret'.table_contexts = cache_file.table_contexts
        /\ ret'.fetched =>
              /\ cache_file'.timestamp = clock
              /\ cache_file'.schema_info = ret'.schema_info
              /\ is_cache_valid(cache_file', clock)]_vars

====
